---- MODULE Spec2Model ----
(***************************************************************************)
(* ClaudeCodeHandler: settings-file discovery, provider/model detection   *)
(* and the streaming response adapter (createMessage).                     *)
(* Keybinding labels: discovery of the user's keybindings.json files, the  *)
(* label resolver and its formatting, and the useKeybindings webview hook. *)
(*                                                                         *)
(* Strings that the code searches are sequences of tokens (a URL is        *)
(* <<"https://", "api.", "z.ai", "/api">>), so includes/startsWith/indexOf *)
(* are computed, not assumed.  Optional strings use "" for undefined (the  *)
(* code only tests them with || and !), optional numbers use <<>> / <<n>>. *)
(* JavaScript runs a handler atomically between two awaits: one action is  *)
(* the code between two suspension points of one asynchronous task.        *)
(***************************************************************************)
EXTENDS Integers, Sequences, FiniteSets, TLC

VARIABLES
    instance,         \* "handler": built by a caller; "temp": built by getAvailableModels
    options,          \* this.options: apiModelId, claudeCodeMaxOutputTokens
    useVertex,        \* process.env.CLAUDE_CODE_USE_VERTEX === "1"
    homedirOk,        \* os.homedir() returns a string (path.join throws otherwise)
    fs,               \* content of the five candidate settings files
    cachedConfig,     \* this.cachedConfig
    cachedModelInfo,  \* this.cachedModelInfo
    pc,               \* suspension point of each asynchronous task
    path,             \* index of the candidate whose readFile a task awaits (0: none)
    available,        \* value getAvailableModels resolved to
    configWrites,     \* history: assignments to this.cachedConfig
    readsIssued,      \* history: fs.readFile calls
    lateReads,        \* history: fs.readFile calls issued after a read had succeeded
    readOk,           \* history: some fs.readFile + JSON.parse has succeeded
    initOutcome,      \* history: branch initializeModelDetection finished in
    providerInfo,     \* history: value detectProviderFromConfig last returned
    upstreamLimit,    \* messages the CLI process may still produce
    seen,             \* history: messages received from the CLI process
    cur,              \* the assistant message whose content is being translated
    blockIdx,         \* index of the next content block of cur
    usage,            \* the usage accumulator object
    isPaidUsage,      \* let isPaidUsage
    output,           \* chunks yielded to the consumer, in order
    pulling,          \* the consumer has an unanswered next() call
    resume,           \* where the generator resumes after a yield
    thrown,           \* message of the Error the generator threw
    model,            \* const model = this.getModel() of createMessage
    launch,           \* arguments of the runClaudeCode call
    host,             \* vscode.env.remoteName, vscode.env.uiKind, process.platform
    disk,             \* the User directory: its profiles entries and keybindings.json files
    defaults,         \* contributes.keybindings of the extension's package.json
    commandIds,       \* argument of getKeybindingLabels
    kpc,              \* suspension point of getKeybindingLabels
    idx,              \* index of the command id being resolved
    candidates,       \* const candidates
    existing,         \* const existing of enumerateProfileKeybindings
    ci,               \* index of the candidate whose stat or readFile is awaited
    settled,          \* value the readUserKeybindings promise settled with
    result,           \* const result of getKeybindingLabels
    returned,         \* history: returns of getCurrentKeybindingLabel
    fsCalls,          \* history: number of file-system calls issued
    unlinked,         \* history: files removed while the call was running
    phase,            \* useKeybindings: "mounted" or "unmounted"
    inline,           \* the caller builds a new commandIds array on every render
    props,            \* the commandIds array of the last render
    effectDeps,       \* reference of the commandIds array the effect last ran with
    keybindings,      \* const [keybindings, setKeybindings] = useState({})
    listeners,        \* number of message listeners of the hook on window
    posted,           \* history: messages passed to vscode.postMessage
    rendered,         \* history: the distinct commandIds arrays the hook was rendered with
    events            \* history: message events dispatched on window

handlerVars == <<instance, options, useVertex, homedirOk, fs, cachedConfig, cachedModelInfo,
                 pc, path, available, configWrites, readsIssued, lateReads, readOk,
                 initOutcome, providerInfo>>
streamVars == <<upstreamLimit, seen, cur, blockIdx, usage, isPaidUsage, output,
                pulling, resume, thrown, model, launch>>
keybindingVars == <<host, disk, defaults, commandIds, kpc, idx, candidates, existing, ci,
                    settled, result, returned, fsCalls, unlinked>>
hookVars == <<phase, inline, props, effectDeps, keybindings, listeners, posted, rendered, events>>
vars == <<handlerVars, streamVars, keybindingVars, hookVars>>

\* No getKeybindingLabels call is made on this extension host
NoKeybindingCall ==
    /\ host = [remoteName |-> "", uiKind |-> "Desktop", platform |-> "linux"]
    /\ disk = [profiles |-> <<>>, files |-> <<>>]
    /\ defaults = <<>>
    /\ commandIds = <<>>
    /\ kpc = "absent"
    /\ idx = 0
    /\ candidates = <<>>
    /\ existing = <<>>
    /\ ci = 0
    /\ settled = [state |-> "pending", rules |-> <<>>]
    /\ result = <<>>
    /\ returned = <<>>
    /\ fsCalls = 0
    /\ unlinked = {}

\* No component uses the hook
NoHook ==
    /\ phase = "absent"
    /\ inline = FALSE
    /\ props = [ref |-> 0, ids |-> <<>>]
    /\ effectDeps = 0
    /\ keybindings = <<>>
    /\ listeners = 0
    /\ posted = <<>>
    /\ rendered = <<>>
    /\ events = <<>>

-----------------------------------------------------------------------------
(* Bounds *)

MaxStream == 3

-----------------------------------------------------------------------------
(* Strings as token sequences *)

StartsAt(s, sub, i) ==
    /\ i + Len(sub) - 1 <= Len(s)
    /\ \A k \in 1..Len(sub) : s[i + k - 1] = sub[k]

\* String.prototype.includes
Includes(s, sub) == \E i \in 1..Len(s) : StartsAt(s, sub, i)

\* String.prototype.startsWith
StartsWith(s, sub) == StartsAt(s, sub, 1)

RECURSIVE IndexFrom(_, _, _)
IndexFrom(s, tok, i) ==
    IF i > Len(s) THEN 0
    ELSE IF s[i] = tok THEN i
    ELSE IndexFrom(s, tok, i + 1)

\* String.prototype.indexOf for a one-token needle, 1-based; 0 for "not found" (-1)
IndexOf(s, tok) == IndexFrom(s, tok, 1)

\* s.slice(indexOf): from the found position, or the last token when not found (slice(-1))
SliceFromIndex(s, i) ==
    IF i > 0 THEN SubSeq(s, i, Len(s))
    ELSE IF Len(s) = 0 THEN <<>> ELSE SubSeq(s, Len(s), Len(s))

-----------------------------------------------------------------------------
(* Static model tables of @roo-code/types: ordered id -> record lists.     *)
(* Prices are in hundredths of the unit the tables use.                    *)

claudeCodeDefaultModelId == "claude-sonnet-4-20250514"

claudeCodeModels ==
    << [id |-> "claude-sonnet-4-20250514", info |-> [inputPrice |-> 300, maxTokens |-> <<64000>>]],
       [id |-> "claude-3-5-sonnet-20241022", info |-> [inputPrice |-> 300, maxTokens |-> <<8192>>]] >>

internationalZAiModels ==
    << [id |-> "glm-4.5", info |-> [inputPrice |-> 60, maxTokens |-> <<98304>>]],
       [id |-> "glm-4.5-flash", info |-> [inputPrice |-> 0, maxTokens |-> <<98304>>]],
       [id |-> "glm-4.6", info |-> [inputPrice |-> 60, maxTokens |-> <<98304>>]] >>

qwenCodeModels ==
    << [id |-> "qwen3-coder-plus", info |-> [inputPrice |-> 0, maxTokens |-> <<65536>>]],
       [id |-> "qwen3-coder-flash", info |-> [inputPrice |-> 0, maxTokens |-> <<65536>>]] >>

deepSeekModels ==
    << [id |-> "deepseek-chat", info |-> [inputPrice |-> 27, maxTokens |-> <<8192>>]],
       [id |-> "deepseek-reasoner", info |-> [inputPrice |-> 55, maxTokens |-> <<65536>>]] >>

\* Object.keys(models), in declaration order
Keys(models) == [i \in 1..Len(models) |-> models[i].id]

\* id in models
HasKey(models, id) == \E i \in 1..Len(models) : models[i].id = id

\* models[id]
Lookup(models, id) == (CHOOSE i \in 1..Len(models) : models[i].id = id)

InfoOf(models, id) == models[Lookup(models, id)].info

RECURSIVE Without(_, _)
\* const { [id]: _, ...rest } = models
Without(models, id) ==
    IF models = <<>> THEN <<>>
    ELSE IF Head(models).id = id THEN Without(Tail(models), id)
    ELSE <<Head(models)>> \o Without(Tail(models), id)

-----------------------------------------------------------------------------
(* Settings files *)

NumPaths == 5
Paths == 1..NumPaths

Null == [kind |-> "null"]

\* A parsed JSON settings object
Config(hasEnv, baseUrl, modelId) ==
    [kind |-> "object", hasEnv |-> hasEnv, ANTHROPIC_BASE_URL |-> baseUrl, ANTHROPIC_MODEL |-> modelId]

\* File states: the readFile rejects, JSON.parse throws, or a JSON value is parsed
Missing == [kind |-> "ENOENT"]
BadJson == [kind |-> "invalid"]

\* JavaScript truthiness of a parsed value
Truthy(v) == v.kind = "object"

\* fs.readFile + JSON.parse succeed
Readable(f) == f.kind \in {"object", "null"}

\* The value JSON.parse returns for a readable file
Parsed(f) == f

ZAiUrl == <<"https://", "api.", "z.ai", "/api/anthropic">>
QwenUrl == <<"https://", "dashscope.", "aliyuncs.com", "/compatible-mode/v1">>
DeepSeekUrl == <<"https://", "api.", "deepseek.com">>
ZAiDeepSeekUrl == <<"https://", "deepseek.com", ".", "z.ai">>
DeepSeekQwenUrl == <<"https://", "deepseek.com", ".", "aliyuncs.com">>
OtherUrl == <<"https://", "api.", "anthropic.com">>

Configs ==
    { Config(FALSE, <<>>, ""),
      Config(TRUE, <<>>, "glm-4.6"),
      Config(TRUE, ZAiUrl, "glm-4.6"),
      Config(TRUE, ZAiUrl, "glm-4.5-flash"),
      Config(TRUE, ZAiUrl, ""),
      Config(TRUE, QwenUrl, "qwen3-coder-flash"),
      Config(TRUE, DeepSeekUrl, ""),
      Config(TRUE, ZAiDeepSeekUrl, "deepseek-chat"),
      Config(TRUE, DeepSeekQwenUrl, "qwen3-coder-plus"),
      Config(TRUE, OtherUrl, "claude-3-5-sonnet-20241022"),
      Null }

ApiModelIds == {"", "claude-3-5-sonnet-20241022", "invalid-model", "glm-4.6"}
MaxOutputTokens == {<<>>, <<8000>>}

-----------------------------------------------------------------------------
(* Provider and model detection *)

NoProvider == [provider |-> "none", models |-> <<>>]
NotDetected == [provider |-> "pending", models |-> <<>>]

\* detectProviderFromConfig with the deepseek.com test placed before the z.ai test
DetectProvider_DeepSeekFirst(config) ==
    IF ~Truthy(config) \/ ~config.hasEnv THEN NoProvider
    ELSE IF config.ANTHROPIC_BASE_URL = <<>> THEN NoProvider
    ELSE IF Includes(config.ANTHROPIC_BASE_URL, <<"deepseek.com">>)
         THEN [provider |-> "deepseek", models |-> deepSeekModels]
    ELSE IF Includes(config.ANTHROPIC_BASE_URL, <<"z.ai">>)
         THEN [provider |-> "zai", models |-> Without(internationalZAiModels, "glm-4.5-flash")]
    ELSE IF Includes(config.ANTHROPIC_BASE_URL, <<"aliyuncs.com">>)
         THEN [provider |-> "qwen-code", models |-> qwenCodeModels]
    ELSE NoProvider

\* detectProviderFromConfig, after its await of readClaudeCodeConfig
DetectProvider(config) ==
    IF ~Truthy(config) \/ ~config.hasEnv THEN NoProvider
    ELSE IF config.ANTHROPIC_BASE_URL = <<>> THEN NoProvider
    ELSE IF Includes(config.ANTHROPIC_BASE_URL, <<"z.ai">>)
         THEN [provider |-> "zai", models |-> Without(internationalZAiModels, "glm-4.5-flash")]
    ELSE IF \/ Includes(config.ANTHROPIC_BASE_URL, <<"dashscope.", "aliyuncs.com">>)
            \/ Includes(config.ANTHROPIC_BASE_URL, <<"aliyuncs.com">>)
         THEN [provider |-> "qwen-code", models |-> qwenCodeModels]
    ELSE IF \/ Includes(config.ANTHROPIC_BASE_URL, <<"deepseek.com">>)
            \/ Includes(config.ANTHROPIC_BASE_URL, <<"api.", "deepseek.com">>)
         THEN [provider |-> "deepseek", models |-> deepSeekModels]
    ELSE NoProvider

\* The copy of the record with the maxTokens of the table
WithMaxTokens_TableValue(info, opts) == info

\* { ...models[id] } with maxTokens replaced when claudeCodeMaxOutputTokens !== undefined
WithMaxTokens(info, opts) ==
    IF opts.claudeCodeMaxOutputTokens # <<>>
    THEN [info EXCEPT !.maxTokens = opts.claudeCodeMaxOutputTokens]
    ELSE info

\* The fallback naming the caller's model id instead of the default id
DefaultModel_CallerId(opts) ==
    [id |-> IF opts.apiModelId # "" THEN opts.apiModelId ELSE claudeCodeDefaultModelId,
     info |-> WithMaxTokens(InfoOf(claudeCodeModels, claudeCodeDefaultModelId), opts)]

\* The default id with a copy of its record, maxTokens as configured
DefaultModel(opts) ==
    [id |-> claudeCodeDefaultModelId,
     info |-> WithMaxTokens(InfoOf(claudeCodeModels, claudeCodeDefaultModelId), opts)]

\* config?.env?.ANTHROPIC_MODEL
ConfigModel(config) ==
    IF Truthy(config) /\ config.hasEnv THEN config.ANTHROPIC_MODEL ELSE ""

\* const validModelId = finalModelId in models ? finalModelId : Object.keys(models)[0]
ValidModelId(models, finalModelId) ==
    IF HasKey(models, finalModelId) THEN finalModelId ELSE Keys(models)[1]

\* The settings' model id taken without regard to options.apiModelId
FinalModelId_SettingsOnly(opts, configModelId) == configModelId

\* this.options.apiModelId || configModelId
FinalModelId(opts, configModelId) ==
    IF opts.apiModelId # "" THEN opts.apiModelId ELSE configModelId

\* initializeModelDetection, alternative-provider branch
SelectAlternative(models, config, opts) ==
    LET configModelId == IF ConfigModel(config) # "" THEN ConfigModel(config) ELSE Keys(models)[1]
        validModelId == ValidModelId(models, FinalModelId(opts, configModelId))
    IN [id |-> validModelId, info |-> WithMaxTokens(InfoOf(models, validModelId), opts)]

\* The standard branch without the lookup of options.apiModelId
SelectPrimary_AlwaysDefault(opts) == DefaultModel(opts)

\* initializeModelDetection, standard branch
SelectPrimary(opts) ==
    LET modelId == IF opts.apiModelId # "" THEN opts.apiModelId ELSE claudeCodeDefaultModelId
    IN IF HasKey(claudeCodeModels, modelId)
       THEN [id |-> modelId, info |-> WithMaxTokens(InfoOf(claudeCodeModels, modelId), opts)]
       ELSE DefaultModel(opts)

NoModelInfo == [id |-> "", info |-> [inputPrice |-> 0, maxTokens |-> <<>>]]

\* getModel deriving the model from the cached settings on every call
GetModel_Rederived ==
    IF DetectProvider(cachedConfig) # NoProvider
    THEN SelectAlternative(DetectProvider(cachedConfig).models, cachedConfig, options)
    ELSE SelectPrimary(options)

\* getModel
GetModel ==
    IF cachedModelInfo # NoModelInfo THEN cachedModelInfo ELSE DefaultModel(options)

-----------------------------------------------------------------------------
(* readClaudeCodeConfig: one step per awaited fs.readFile *)

Tasks == {"init", "detect", "createMessage"}

\* A loop that goes on to the last candidate whatever it reads
ReadReturns_LastPath(p) == p = NumPaths

\* Outcome of the readFile + JSON.parse a task awaits on candidate p:
\* the call returns a config, or the loop issues the next readFile.
ReadReturns(p) == Readable(fs[p]) \/ p = NumPaths
ReadValue(p) == IF Readable(fs[p]) THEN Parsed(fs[p]) ELSE Null

\* this.cachedConfig = config, on a successful read only
CacheAfterRead(p) == IF Readable(fs[p]) THEN Parsed(fs[p]) ELSE cachedConfig

\* History of one completed readFile of task t on candidate path[t]
ReadHistory(t) ==
    LET p == path[t] IN
    /\ configWrites' = configWrites + (IF Readable(fs[p]) THEN 1 ELSE 0)
    /\ readOk' = (readOk \/ Readable(fs[p]))
    /\ readsIssued' = readsIssued + (IF ReadReturns(p) THEN 0 ELSE 1)
    /\ lateReads' = lateReads + (IF ~ReadReturns(p) /\ readOk THEN 1 ELSE 0)

\* The continue branch of the loop: await the next candidate
NextCandidate(t) ==
    /\ ~ReadReturns(path[t])
    /\ path' = [path EXCEPT ![t] = @ + 1]
    /\ ReadHistory(t)
    /\ UNCHANGED <<cachedConfig, pc>>

\* The fallback without a model table
AvailableDefault_NoModels == [provider |-> "claude-code", models |-> <<>>]

AvailableDefault == [provider |-> "claude-code", models |-> claudeCodeModels]
NotAvailable == [provider |-> "pending", models |-> <<>>]

\* The value initializeModelDetection caches once detectProviderFromConfig returned
\* detected; cached is what its second readClaudeCodeConfig call returns
InitSelection(detected, cached) ==
    IF detected # NoProvider
    THEN SelectAlternative(detected.models, cached, options)
    ELSE SelectPrimary(options)

\* initializeModelDetection resumes from the readFile it awaits.  When a provider is
\* detected the config read was truthy and has just been cached, so the second
\* readClaudeCodeConfig call returns this.cachedConfig without reading.
InitRead ==
    /\ pc["init"] = "detect"
    /\ \/ /\ NextCandidate("init")
          /\ UNCHANGED <<cachedModelInfo, initOutcome, providerInfo>>
       \/ /\ ReadReturns(path["init"])
          /\ ReadHistory("init")
          /\ cachedConfig' = CacheAfterRead(path["init"])
          /\ pc' = [pc EXCEPT !["init"] = "done"]
          /\ path' = [path EXCEPT !["init"] = 0]
          /\ providerInfo' = DetectProvider(ReadValue(path["init"]))
          /\ cachedModelInfo' = InitSelection(providerInfo', cachedConfig')
          /\ initOutcome' = IF providerInfo' # NoProvider THEN "alternative" ELSE "standard"
    /\ UNCHANGED <<instance, options, useVertex, homedirOk, fs, available, streamVars>>
    /\ UNCHANGED <<keybindingVars, hookVars>>

\* The catch block of initializeModelDetection: detectProviderFromConfig rejected
\* (path.join throws on the undefined os.homedir() gave), the await resumes in the catch
InitCatch ==
    /\ pc["init"] = "caught"
    /\ pc' = [pc EXCEPT !["init"] = "done"]
    /\ cachedModelInfo' = DefaultModel(options)
    /\ initOutcome' = "error"
    /\ UNCHANGED <<instance, options, useVertex, homedirOk, fs, cachedConfig, path, available,
                   configWrites, readsIssued, lateReads, readOk, providerInfo, streamVars>>
    /\ UNCHANGED <<keybindingVars, hookVars>>

\* The catch block of getAvailableModels
DetectCatch ==
    /\ pc["detect"] = "caught"
    /\ pc' = [pc EXCEPT !["detect"] = "done"]
    /\ available' = AvailableDefault
    /\ UNCHANGED <<instance, options, useVertex, homedirOk, fs, cachedConfig, cachedModelInfo, path,
                   configWrites, readsIssued, lateReads, readOk, initOutcome, providerInfo, streamVars>>
    /\ UNCHANGED <<keybindingVars, hookVars>>

\* getAvailableModels resumes from the readFile its detectProviderFromConfig awaits
DetectRead ==
    /\ pc["detect"] = "detect"
    /\ \/ /\ NextCandidate("detect")
          /\ UNCHANGED <<available, providerInfo>>
       \/ /\ ReadReturns(path["detect"])
          /\ ReadHistory("detect")
          /\ cachedConfig' = CacheAfterRead(path["detect"])
          /\ pc' = [pc EXCEPT !["detect"] = "done"]
          /\ path' = [path EXCEPT !["detect"] = 0]
          /\ providerInfo' = DetectProvider(ReadValue(path["detect"]))
          /\ available' = IF providerInfo' # NoProvider /\ Len(Keys(providerInfo'.models)) > 0
                          THEN providerInfo' ELSE AvailableDefault
    /\ UNCHANGED <<instance, options, useVertex, homedirOk, fs, cachedModelInfo, initOutcome, streamVars>>
    /\ UNCHANGED <<keybindingVars, hookVars>>

-----------------------------------------------------------------------------
(* Messages of the CLI process *)

HelloText == <<"Hello there!">>
ApiErrorInvalidModel == <<"API Error", ": 400 ", "{", "error.message:", "Invalid model name", "}">>
ApiErrorOther == <<"API Error", ": 529 ", "{", "error.message:", "Overloaded", "}">>
ApiErrorPlain == <<"API Error", ": connection reset">>
ApiErrorNoDetail == <<"API Error", ": 500 ", "{", "message:", "Internal error", "}">>

TextBlock(text) == [type |-> "text", text |-> text]
ThinkingBlock(text) == [type |-> "thinking", thinking |-> text]
RedactedBlock == [type |-> "redacted_thinking"]
ToolUseBlock == [type |-> "tool_use", name |-> "test_tool"]

Tokens(in, out, cacheRead, cacheCreation) ==
    [input_tokens |-> in, output_tokens |-> out,
     cache_read_input_tokens |-> cacheRead, cache_creation_input_tokens |-> cacheCreation]

StringMsg == [type |-> "string", text |-> <<"This is a string chunk">>]
InitMsg(apiKeySource) == [type |-> "system", subtype |-> "init", apiKeySource |-> apiKeySource]
AssistantMsg(stopReason, content, tokens) ==
    [type |-> "assistant", message |-> [stop_reason |-> stopReason, content |-> content, usage |-> tokens]]
ResultMsg(cost) == [type |-> "result", result |-> "success", total_cost_usd |-> cost]

Messages ==
    { StringMsg,
      InitMsg("none"),
      InitMsg("/login managed key"),
      AssistantMsg("null", <<TextBlock(HelloText)>>, Tokens(10, 20, <<5>>, <<3>>)),
      AssistantMsg("null", <<TextBlock(ApiErrorInvalidModel), ToolUseBlock, RedactedBlock>>,
                   Tokens(1, 2, <<>>, <<>>)),
      AssistantMsg("end_turn", <<ThinkingBlock(<<"Let me think">>), TextBlock(ApiErrorOther)>>,
                   Tokens(0, 0, <<>>, <<>>)),
      AssistantMsg("end_turn", <<TextBlock(ApiErrorInvalidModel)>>, Tokens(10, 20, <<>>, <<>>)),
      AssistantMsg("end_turn", <<TextBlock(ApiErrorOther)>>, Tokens(10, 20, <<>>, <<>>)),
      AssistantMsg("end_turn", <<TextBlock(ApiErrorPlain)>>, Tokens(10, 20, <<>>, <<>>)),
      AssistantMsg("end_turn", <<TextBlock(ApiErrorNoDetail)>>, Tokens(10, 20, <<>>, <<>>)),
      ResultMsg(5) }

-----------------------------------------------------------------------------
(* createMessage: the stream adapter *)

NoMessage == [stop_reason |-> "null", content |-> <<>>, usage |-> Tokens(0, 0, <<>>, <<>>)]

InitialUsage ==
    [type |-> "usage", inputTokens |-> 0, outputTokens |-> 0, cacheReadTokens |-> 0, cacheWriteTokens |-> 0]

\* The yielded usage chunk is the accumulator object itself, not a copy
UsageRef == [ref |-> "usage"]

\* n || 0 for an optional number
OrZero(n) == IF n = <<>> THEN 0 ELSE n[1]

\* The counters assigned from the message instead of added to
Accumulate_Overwrite(u, tokens) ==
    [u EXCEPT !.inputTokens = tokens.input_tokens,
              !.outputTokens = tokens.output_tokens,
              !.cacheReadTokens = OrZero(tokens.cache_read_input_tokens),
              !.cacheWriteTokens = OrZero(tokens.cache_creation_input_tokens)]

\* usage.x += message.usage.y, for the four counters
Accumulate(u, tokens) ==
    [u EXCEPT !.inputTokens = @ + tokens.input_tokens,
              !.outputTokens = @ + tokens.output_tokens,
              !.cacheReadTokens = @ + OrZero(tokens.cache_read_input_tokens),
              !.cacheWriteTokens = @ + OrZero(tokens.cache_creation_input_tokens)]

\* The reported cost taken without regard to isPaidUsage
WithTotalCost_IgnorePaid(u, paid, cost) == ("totalCost" :> cost) @@ u

\* usage.totalCost = isPaidUsage ? chunk.total_cost_usd : 0
WithTotalCost(u, paid, cost) == ("totalCost" :> (IF paid THEN cost ELSE 0)) @@ u

\* JSON.parse inside attemptParse: null when it throws
AttemptParse(str) ==
    IF Len(str) >= 3 /\ str[1] = "{" /\ str[2] = "error.message:" /\ str[Len(str)] = "}"
    THEN [kind |-> "object", hasError |-> TRUE, message |-> SubSeq(str, 3, Len(str) - 1)]
    ELSE IF Len(str) >= 2 /\ str[1] = "{" /\ str[Len(str)] = "}"
    THEN [kind |-> "object", hasError |-> FALSE, message |-> <<>>]
    ELSE Null

PlanMismatchHint == <<"\n\n", "common:errors.claudeCode.apiKeyModelPlanMismatch">>
TypeErrorMessage == <<"TypeError">>

\* The error test with a marker the CLI does not use
IsError_WrongMarker(message) ==
    /\ message.stop_reason # "null"
    /\ "text" \in DOMAIN message.content[1]
    /\ StartsWith(message.content[1].text, <<"Error">>)

\* const isError = content && content.text.startsWith(`API Error`), under stop_reason !== null
IsError(message) ==
    /\ message.stop_reason # "null"
    /\ "text" \in DOMAIN message.content[1]
    /\ StartsWith(message.content[1].text, <<"API Error">>)

\* The message of the Error thrown for an error message
ErrorMessage(message) ==
    LET text == message.content[1].text
        errorMessage == SliceFromIndex(text, IndexOf(text, "{"))
        error == AttemptParse(errorMessage)
    IN IF ~Truthy(error) THEN text
       ELSE IF ~error.hasError THEN TypeErrorMessage
       ELSE IF Includes(error.message, <<"Invalid model name">>) THEN text \o PlanMismatchHint
       ELSE errorMessage

\* The switch over content.type yields for these block types only
Yields(block) == block.type \in {"text", "thinking", "redacted_thinking"}

\* Thinking blocks passed on as if they were text blocks
Translate_ThinkingAsText(block) ==
    IF block.type \in {"text", "thinking"}
    THEN [type |-> "text", text |-> IF block.type = "text" THEN block.text ELSE block.thinking]
    ELSE [type |-> "reasoning", text |-> <<"[Redacted thinking block]">>]

\* The chunk a content block is translated to
Translate(block) ==
    IF block.type = "text" THEN [type |-> "text", text |-> block.text]
    ELSE IF block.type = "thinking" THEN [type |-> "reasoning", text |-> block.thinking]
    ELSE [type |-> "reasoning", text |-> <<"[Redacted thinking block]">>]

RECURSIVE NextYield(_, _)
\* Index of the first block at or after i the for loop yields for; 0 when it runs to its end
NextYield(content, i) ==
    IF i > Len(content) THEN 0
    ELSE IF Yields(content[i]) THEN i
    ELSE NextYield(content, i + 1)

\* getClaudeCodeModelId(modelId, useVertex) of @roo-code/types
GetClaudeCodeModelId(modelId, vertex) == [id |-> modelId, vertex |-> vertex]

\* isAlternativeProvider of createMessage
IsAlternativeProvider(config) ==
    /\ Truthy(config) /\ config.hasEnv
    /\ config.ANTHROPIC_BASE_URL # <<>>
    /\ \/ Includes(config.ANTHROPIC_BASE_URL, <<"z.ai">>)
       \/ Includes(config.ANTHROPIC_BASE_URL, <<"dashscope.", "aliyuncs.com">>)
       \/ Includes(config.ANTHROPIC_BASE_URL, <<"aliyuncs.com">>)
       \/ Includes(config.ANTHROPIC_BASE_URL, <<"deepseek.com">>)
       \/ Includes(config.ANTHROPIC_BASE_URL, <<"api.", "deepseek.com">>)

NoLaunch == [modelId |-> [id |-> "", vertex |-> FALSE], maxOutputTokens |-> <<>>, envVars |-> FALSE]

\* The arguments createMessage passes to runClaudeCode
LaunchArgs(m, config) ==
    LET finalModelId ==
            IF IsAlternativeProvider(config)
            THEN (IF ConfigModel(config) # "" THEN ConfigModel(config) ELSE m.id)
            ELSE (IF HasKey(claudeCodeModels, m.id) THEN m.id ELSE claudeCodeDefaultModelId)
        validClaudeModelId ==
            IF HasKey(claudeCodeModels, finalModelId) THEN finalModelId ELSE claudeCodeDefaultModelId
    IN [modelId |-> IF IsAlternativeProvider(config)
                    THEN [id |-> finalModelId, vertex |-> FALSE]
                    ELSE GetClaudeCodeModelId(validClaudeModelId, useVertex),
        maxOutputTokens |-> options.claudeCodeMaxOutputTokens,
        envVars |-> (Truthy(config) /\ config.hasEnv)]

\* A generator that hands over chunk c and runs on without waiting for the next pull
Yield_RunOn(c, resumeAt) ==
    /\ output' = Append(output, c)
    /\ pc' = [pc EXCEPT !["createMessage"] = "loop"]
    /\ resume' = resumeAt
    /\ pulling' = TRUE

\* The generator yields chunk c and suspends
Yield(c, resumeAt) ==
    /\ output' = Append(output, c)
    /\ pc' = [pc EXCEPT !["createMessage"] = "yielded"]
    /\ resume' = resumeAt
    /\ pulling' = FALSE

\* The for loop over message.content from block i on, up to its next yield;
\* the usage of the message is added once the loop has run to its end
Blocks(message, i) ==
    LET j == NextYield(message.content, i) IN
    IF j > 0
    THEN /\ Yield(Translate(message.content[j]), "blocks")
         /\ cur' = message
         /\ blockIdx' = j + 1
         /\ UNCHANGED usage
    ELSE /\ usage' = Accumulate(usage, message.usage)
         /\ pc' = [pc EXCEPT !["createMessage"] = "loop"]
         /\ cur' = NoMessage
         /\ blockIdx' = 0
         /\ pulling' = TRUE
         /\ UNCHANGED <<output, resume>>

\* The consumer calls next(): the generator starts, or resumes after its last yield
Pull ==
    /\ ~pulling
    /\ \/ /\ pc["createMessage"] = "unstarted"
          /\ model' = GetModel
          /\ IF Truthy(cachedConfig)
             THEN /\ launch' = LaunchArgs(GetModel, cachedConfig)
                  /\ pc' = [pc EXCEPT !["createMessage"] = "loop"]
                  /\ pulling' = TRUE
                  /\ UNCHANGED <<path, readsIssued, lateReads, thrown>>
             ELSE IF ~homedirOk
             THEN /\ pc' = [pc EXCEPT !["createMessage"] = "rejected"]
                  /\ thrown' = TypeErrorMessage
                  /\ UNCHANGED <<path, readsIssued, lateReads, launch, pulling>>
             ELSE /\ pc' = [pc EXCEPT !["createMessage"] = "config"]
                  /\ path' = [path EXCEPT !["createMessage"] = 1]
                  /\ readsIssued' = readsIssued + 1
                  /\ lateReads' = lateReads + (IF readOk THEN 1 ELSE 0)
                  /\ pulling' = TRUE
                  /\ UNCHANGED <<launch, thrown>>
          /\ UNCHANGED <<cur, blockIdx, usage, output, resume>>
       \/ /\ pc["createMessage"] = "yielded"
          /\ resume = "loop"
          /\ pc' = [pc EXCEPT !["createMessage"] = "loop"]
          /\ pulling' = TRUE
          /\ UNCHANGED <<path, readsIssued, lateReads, thrown, model, launch,
                         cur, blockIdx, usage, output, resume>>
       \/ /\ pc["createMessage"] = "yielded"
          /\ resume = "blocks"
          /\ Blocks(cur, blockIdx)
          /\ UNCHANGED <<path, readsIssued, lateReads, thrown, model, launch>>
    /\ UNCHANGED <<instance, options, useVertex, homedirOk, fs, cachedConfig, cachedModelInfo,
                   available, configWrites, readOk, initOutcome, providerInfo,
                   upstreamLimit, seen, isPaidUsage>>
    /\ UNCHANGED <<keybindingVars, hookVars>>

\* createMessage resumes from the readFile its readClaudeCodeConfig awaits
CreateMessageRead ==
    /\ pc["createMessage"] = "config"
    /\ \/ /\ NextCandidate("createMessage")
          /\ UNCHANGED launch
       \/ /\ ReadReturns(path["createMessage"])
          /\ ReadHistory("createMessage")
          /\ cachedConfig' = CacheAfterRead(path["createMessage"])
          /\ pc' = [pc EXCEPT !["createMessage"] = "loop"]
          /\ path' = [path EXCEPT !["createMessage"] = 0]
          /\ launch' = LaunchArgs(model, ReadValue(path["createMessage"]))
    /\ UNCHANGED <<instance, options, useVertex, homedirOk, fs, cachedModelInfo, available,
                   initOutcome, providerInfo, upstreamLimit, seen, cur, blockIdx, usage, isPaidUsage,
                   output, pulling, resume, thrown, model>>
    /\ UNCHANGED <<keybindingVars, hookVars>>

\* The CLI process produces chunk: one iteration of the for await loop, up to its first yield
Upstream(chunk) ==
    /\ pc["createMessage"] = "loop"
    /\ Len(seen) < upstreamLimit
    /\ seen' = Append(seen, chunk)
    /\ IF chunk.type = "string"
       THEN /\ Yield([type |-> "text", text |-> chunk.text], "loop")
            /\ UNCHANGED <<cur, blockIdx, usage, isPaidUsage, thrown>>
       ELSE IF chunk.type = "system" /\ chunk.subtype = "init"
       THEN /\ isPaidUsage' = (chunk.apiKeySource # "none")
            /\ UNCHANGED <<pc, cur, blockIdx, usage, output, pulling, resume, thrown>>
       ELSE IF chunk.type = "assistant" /\ "message" \in DOMAIN chunk
       THEN IF IsError(chunk.message)
            THEN /\ pc' = [pc EXCEPT !["createMessage"] = "rejected"]
                 /\ thrown' = ErrorMessage(chunk.message)
                 /\ pulling' = FALSE
                 /\ UNCHANGED <<cur, blockIdx, usage, isPaidUsage, output, resume>>
            ELSE /\ Blocks(chunk.message, 1)
                 /\ UNCHANGED <<isPaidUsage, thrown>>
       ELSE IF chunk.type = "result" /\ "result" \in DOMAIN chunk
       THEN /\ usage' = WithTotalCost(usage, isPaidUsage, chunk.total_cost_usd)
            /\ Yield(UsageRef, "loop")
            /\ UNCHANGED <<cur, blockIdx, isPaidUsage, thrown>>
       ELSE UNCHANGED <<pc, cur, blockIdx, usage, isPaidUsage, output, pulling, resume, thrown>>
    /\ UNCHANGED <<instance, options, useVertex, homedirOk, fs, cachedConfig, cachedModelInfo,
                   path, available, configWrites, readsIssued, lateReads, readOk, initOutcome,
                   providerInfo,
                   upstreamLimit, model, launch>>
    /\ UNCHANGED <<keybindingVars, hookVars>>

\* The CLI process ends its output: the for await loop and the generator complete
UpstreamEnd ==
    /\ pc["createMessage"] = "loop"
    /\ pc' = [pc EXCEPT !["createMessage"] = "done"]
    /\ pulling' = FALSE
    /\ UNCHANGED <<instance, options, useVertex, homedirOk, fs, cachedConfig, cachedModelInfo,
                   path, available, configWrites, readsIssued, lateReads, readOk, initOutcome,
                   providerInfo,
                   upstreamLimit, seen, cur, blockIdx, usage, isPaidUsage, output, resume,
                   thrown, model, launch>>
    /\ UNCHANGED <<keybindingVars, hookVars>>

-----------------------------------------------------------------------------
(* Initial states: the handler right after its constructor returned.  The  *)
(* constructor runs initializeModelDetection up to its first await; the    *)
(* temporary instance of getAvailableModels has detectProviderFromConfig   *)
(* called on it in the same synchronous run; its only option is the CLI    *)
(* path.                                                                   *)

Constructed(kind, opts, vertex, homeOk, files, limit) ==
    /\ instance = kind
    /\ options = IF kind = "temp" THEN [apiModelId |-> "", claudeCodeMaxOutputTokens |-> <<>>] ELSE opts
    /\ useVertex = vertex
    /\ homedirOk = homeOk
    /\ fs = files
    /\ cachedConfig = Null
    /\ cachedModelInfo = NoModelInfo
    /\ initOutcome = "pending"
    /\ providerInfo = NotDetected
    /\ pc = [t \in Tasks |->
               IF t = "init" THEN (IF homeOk THEN "detect" ELSE "caught")
               ELSE IF t = "detect" THEN (IF kind # "temp" THEN "absent" ELSE IF homeOk THEN "detect" ELSE "caught")
               ELSE (IF kind = "temp" THEN "absent" ELSE "unstarted")]
    /\ path = [t \in Tasks |->
                 IF homeOk /\ (t = "init" \/ (t = "detect" /\ kind = "temp")) THEN 1 ELSE 0]
    /\ available = NotAvailable
    /\ configWrites = 0
    /\ readsIssued = IF ~homeOk THEN 0 ELSE IF kind = "temp" THEN 2 ELSE 1
    /\ lateReads = 0
    /\ readOk = FALSE
    /\ upstreamLimit = limit
    /\ seen = <<>>
    /\ cur = NoMessage
    /\ blockIdx = 0
    /\ usage = InitialUsage
    /\ isPaidUsage = TRUE
    /\ output = <<>>
    /\ pulling = FALSE
    /\ resume = "loop"
    /\ thrown = <<>>
    /\ model = NoModelInfo
    /\ launch = NoLaunch
    /\ NoKeybindingCall
    /\ NoHook

Instances == {"handler", "temp"}
DefaultOptions == [apiModelId |-> "claude-3-5-sonnet-20241022", claudeCodeMaxOutputTokens |-> <<>>]

\* Settings files of every shape: each candidate missing, unparseable, or one of two settings
InitDiscovery ==
    \E kind \in Instances :
    \E files \in [Paths -> {Missing, BadJson, Config(TRUE, ZAiUrl, "glm-4.6"), Config(FALSE, <<>>, "")}] :
        Constructed(kind, DefaultOptions, FALSE, TRUE, files, 0)

\* One settings file of every content, under every option
InitDetection ==
    \E kind \in Instances, vertex \in BOOLEAN, homeOk \in BOOLEAN, p \in {1, NumPaths} :
    \E c \in Configs, id \in ApiModelIds, maxTokens \in MaxOutputTokens :
        Constructed(kind, [apiModelId |-> id, claudeCodeMaxOutputTokens |-> maxTokens], vertex, homeOk,
                    [q \in Paths |-> IF q = p THEN c ELSE Missing], 0)

\* A CLI process that produces up to MaxStream messages
InitStream ==
    Constructed("handler", DefaultOptions, FALSE, TRUE,
                [q \in Paths |-> IF q = 1 THEN Config(FALSE, <<>>, "") ELSE Missing], MaxStream)

Init == InitDiscovery \/ InitDetection \/ InitStream

Next ==
    \/ InitRead
    \/ InitCatch
    \/ DetectRead
    \/ DetectCatch
    \/ Pull
    \/ CreateMessageRead
    \/ \E chunk \in Messages : Upstream(chunk)
    \/ UpstreamEnd

Spec == Init /\ [][Next]_vars

-----------------------------------------------------------------------------
(* Keybinding labels.  Keys and labels are strings of characters, so that  *)
(* trim, split, toLowerCase, toUpperCase and join are computed.            *)

MaxProfiles == 2

Char(s, i) == SubSeq(s, i, i)
From(s, i) == SubSeq(s, i, Len(s))

UpperCaseLetters == "ABCDEFGHIJKLMNOPQRSTUVWXYZ"
LowerCaseLetters == "abcdefghijklmnopqrstuvwxyz"
Digits == "0123456789"

\* Position of character c in alphabet, 0 when it is not in it
PositionIn(alphabet, c) ==
    IF \E i \in 1..Len(alphabet) : Char(alphabet, i) = c
    THEN CHOOSE i \in 1..Len(alphabet) : Char(alphabet, i) = c
    ELSE 0

RECURSIVE ToLowerCase(_)
ToLowerCase(s) ==
    IF s = "" THEN ""
    ELSE (IF PositionIn(UpperCaseLetters, Char(s, 1)) > 0
          THEN Char(LowerCaseLetters, PositionIn(UpperCaseLetters, Char(s, 1)))
          ELSE Char(s, 1)) \o ToLowerCase(From(s, 2))

RECURSIVE ToUpperCase(_)
ToUpperCase(s) ==
    IF s = "" THEN ""
    ELSE (IF PositionIn(LowerCaseLetters, Char(s, 1)) > 0
          THEN Char(UpperCaseLetters, PositionIn(LowerCaseLetters, Char(s, 1)))
          ELSE Char(s, 1)) \o ToUpperCase(From(s, 2))

IsWhiteSpace(c) == c \in {" ", "\t", "\n"}

RECURSIVE TrimStart(_)
TrimStart(s) ==
    IF s # "" /\ IsWhiteSpace(Char(s, 1)) THEN TrimStart(From(s, 2)) ELSE s

RECURSIVE TrimEnd(_)
TrimEnd(s) ==
    IF s # "" /\ IsWhiteSpace(Char(s, Len(s))) THEN TrimEnd(SubSeq(s, 1, Len(s) - 1)) ELSE s

\* String.prototype.trim
Trim(s) == TrimEnd(TrimStart(s))

RECURSIVE Split(_, _)
\* s.split(sep) for a separator of one character
Split(s, sep) ==
    IF PositionIn(s, sep) = 0 THEN <<s>>
    ELSE <<SubSeq(s, 1, PositionIn(s, sep) - 1)>> \o Split(From(s, PositionIn(s, sep) + 1), sep)

RECURSIVE Join(_, _)
\* parts.join(sep)
Join(parts, sep) ==
    IF parts = <<>> THEN ""
    ELSE IF Len(parts) = 1 THEN parts[1]
    ELSE parts[1] \o sep \o Join(Tail(parts), sep)

\* A Record<string, string> as a sequence of <<key, value>> in declaration order
HasOwn(table, k) == \E i \in 1..Len(table) : table[i][1] = k
ValueOf(table, k) == table[CHOOSE i \in 1..Len(table) : table[i][1] = k][2]

macModifiers ==
    << <<"cmd", "Cmd">>, <<"meta", "Cmd">>, <<"ctrl", "Ctrl">>, <<"alt", "Option">>,
       <<"option", "Option">>, <<"shift", "Shift">> >>

winLinuxModifiers ==
    << <<"cmd", "Ctrl">>, <<"meta", "Win">>, <<"ctrl", "Ctrl">>, <<"alt", "Alt">>,
       <<"shift", "Shift">> >>

specialKeys ==
    << <<"left", "Left">>, <<"right", "Right">>, <<"up", "Up">>, <<"down", "Down">>,
       <<"home", "Home">>, <<"end", "End">>, <<"pageup", "PageUp">>, <<"pagedown", "PageDown">>,
       <<"insert", "Insert">>, <<"delete", "Delete">>, <<"backspace", "Backspace">>,
       <<"tab", "Tab">>, <<"enter", "Enter">>, <<"escape", "Escape">>, <<"space", "Space">> >>

\* Lower-case names every object literal inherits from Object.prototype, with what
\* join("+") makes of their values
inheritedProperties ==
    << <<"constructor", "function Object() { [native code] }">>,
       <<"__proto__", "[object Object]">> >>

\* normalized in table: own and inherited properties
In(table, k) == HasOwn(table, k) \/ HasOwn(inheritedProperties, k)
Get(table, k) == IF HasOwn(table, k) THEN ValueOf(table, k) ELSE ValueOf(inheritedProperties, k)

\* /^f\d{1,2}$/.test(normalized)
IsFunctionKey(normalized) ==
    /\ Len(normalized) \in {2, 3}
    /\ Char(normalized, 1) = "f"
    /\ \A i \in 2..Len(normalized) : PositionIn(Digits, Char(normalized, i)) > 0

normalizeKeyToken(token, platform) ==
    LET normalized == ToLowerCase(token)
        modifierMap == IF platform = "darwin" THEN macModifiers ELSE winLinuxModifiers
    IN IF In(modifierMap, normalized) THEN Get(modifierMap, normalized)
       ELSE IF In(specialKeys, normalized) THEN Get(specialKeys, normalized)
       ELSE IF IsFunctionKey(normalized) THEN ToUpperCase(normalized)
       ELSE IF Len(normalized) = 1 THEN ToUpperCase(normalized)
       ELSE ToUpperCase(SubSeq(normalized, 1, 1)) \o From(normalized, 2)

prettyPrintKey(rawKey, platform) ==
    LET chords == SelectSeq(Split(rawKey, " "), LAMBDA c : c # "")
        formatChord(chord) ==
            LET parts == Split(chord, "+")
            IN Join([i \in 1..Len(parts) |-> normalizeKeyToken(parts[i], platform)], "+")
        formattedChords == [i \in 1..Len(chords) |-> formatChord(chords[i])]
    IN IF Len(formattedChords) > 1 THEN Join(formattedChords, ", ")
       ELSE IF Len(formattedChords) = 1 THEN formattedChords[1]
       ELSE ""

\* string | undefined
Undefined == [kind |-> "undefined"]
Defined(s) == [kind |-> "string", value |-> s]

\* A keybinding rule; key "" stands for a rule without key
Rule(key, command) == [key |-> key, command |-> command]

\* entries.find((k) => k.command === commandId): the index found, 0 for undefined
FindByCommand(entries, commandId) ==
    IF \E i \in 1..Len(entries) : entries[i].command = commandId
    THEN CHOOSE i \in 1..Len(entries) :
             /\ entries[i].command = commandId
             /\ \A j \in 1..(i - 1) : entries[j].command # commandId
    ELSE 0

\* The user rule looked up by command alone, whatever its key
findFirstBindingForCommand_AnyKey(entries, commandId) == FindByCommand(entries, commandId)

\* entries.find(entry => entry.command === commandId && entry.key && entry.key.trim()):
\* the index found, 0 for undefined
findFirstBindingForCommand(entries, commandId) ==
    LET matches(i) == entries[i].command = commandId /\ entries[i].key # "" /\ Trim(entries[i].key) # ""
    IN IF \E i \in 1..Len(entries) : matches(i)
       THEN CHOOSE i \in 1..Len(entries) : matches(i) /\ \A j \in 1..(i - 1) : ~matches(j)
       ELSE 0

\* The try block of getCurrentKeybindingLabel, from the rules readUserKeybindings gave
CurrentLabel(userKeybindings, contributedKeybindings, commandId, platform) ==
    LET userBinding == findFirstBindingForCommand(userKeybindings, commandId)
        defaultBinding == FindByCommand(contributedKeybindings, commandId)
        rawKey == Trim(IF userBinding > 0 THEN userKeybindings[userBinding].key
                       ELSE IF defaultBinding > 0 THEN contributedKeybindings[defaultBinding].key
                       ELSE "")
    IN IF rawKey = "" THEN Undefined ELSE Defined(prettyPrintKey(rawKey, platform))

-----------------------------------------------------------------------------
(* readUserKeybindings: discovery of the keybindings.json candidates.      *)
(* Candidate 1 is User/keybindings.json, candidate i + 1 is                *)
(* User/profiles/<entry i>/keybindings.json.                               *)

Slots == 1..(1 + MaxProfiles)

NoFile == [kind |-> "ENOENT"]
File(mtimeMs, content) == [kind |-> "file", mtimeMs |-> mtimeMs, content |-> content]

\* What a keybindings.json holds
Unreadable == [kind |-> "EACCES"]
InvalidJson == [kind |-> "invalid"]
ObjectJson == [kind |-> "object"]
ListJson(rules) == [kind |-> "list", rules |-> rules]

PromptCommand == "kilo-code.ghost.promptCodeSuggestion"
GenerateCommand == "kilo-code.ghost.generateSuggestions"
UnknownCommand == "unknown.command"

\* Only the remote name looked at
CanReadLocalKeybindings_AnyUi(h) == h.remoteName = ""

\* canReadLocalKeybindings
CanReadLocalKeybindings(h) == h.remoteName = "" /\ h.uiKind = "Desktop"

\* getUserKeybindingsDirForDiagnostics: <base directory>/User, undefined where the
\* keybindings are not local
getUserKeybindingsDirForDiagnostics(h) ==
    IF ~CanReadLocalKeybindings(h) THEN Undefined ELSE Defined("User")

\* st.isFile() of a stat that did not throw
IsFile(f) == f.kind = "file"

\* readJSON5File: the parsed value, null when readFile or JSON5.parse throws
ReadJSON5File(f) ==
    IF f.kind = "file" /\ f.content.kind \in {"object", "list"} THEN f.content ELSE Null

IsArray(v) == v.kind = "list"

\* The candidates pushed by enumerateProfileKeybindings once readdir has settled
CandidatesOf(d) ==
    <<1>> \o (IF d.profilesDir
              THEN SelectSeq([i \in 1..Len(d.entries) |-> i + 1], LAMBDA p : d.entries[p - 1])
              ELSE <<>>)

\* The candidates in file order, unsorted
SortByMtime_Unsorted(paths, d) == paths

RECURSIVE InsertByMtime(_, _, _)
\* p placed before the first candidate modified earlier than it
InsertByMtime(sorted, p, d) ==
    IF sorted = <<>> THEN <<p>>
    ELSE IF d.files[Head(sorted)].mtimeMs < d.files[p].mtimeMs THEN <<p>> \o sorted
    ELSE <<Head(sorted)>> \o InsertByMtime(Tail(sorted), p, d)

RECURSIVE SortByMtime(_, _)
\* stats.sort((a, b) => b.stat.mtimeMs - a.stat.mtimeMs): stable, descending
SortByMtime(paths, d) ==
    IF paths = <<>> THEN <<>>
    ELSE InsertByMtime(SortByMtime(SubSeq(paths, 1, Len(paths) - 1), d), paths[Len(paths)], d)

\* The promise of readUserKeybindings
NotSettled == [state |-> "pending", rules |-> <<>>]
Resolved(rules) == [state |-> "fulfilled", rules |-> rules]
RejectedRead == [state |-> "rejected", rules |-> <<>>]

\* result[commandId] = label
Assign(res, commandId, label) ==
    [c \in DOMAIN res \cup {commandId} |-> IF c = commandId THEN label ELSE res[c]]

\* readUserKeybindings up to its first await
StartRead ==
    IF CanReadLocalKeybindings(host)
    THEN /\ kpc' = "readdir"
         /\ candidates' = <<1>>
         /\ settled' = NotSettled
         /\ fsCalls' = fsCalls + 1
    ELSE /\ kpc' = "settled"
         /\ candidates' = <<>>
         /\ settled' = Resolved(<<>>)
         /\ fsCalls' = fsCalls

\* The for loop of readUserKeybindings over paths, up to its first await
StartReadFiles(paths) ==
    /\ candidates' = paths
    /\ IF paths = <<>>
       THEN kpc' = "settled" /\ settled' = Resolved(<<>>) /\ ci' = 0 /\ fsCalls' = fsCalls
       ELSE kpc' = "readFile" /\ settled' = settled /\ ci' = 1 /\ fsCalls' = fsCalls + 1

\* getKeybindingLabels is called: up to the first await of its first iteration
GetKeybindingLabels ==
    /\ kpc = "idle"
    /\ result' = <<>>
    /\ idx' = 1
    /\ IF commandIds = <<>>
       THEN kpc' = "done" /\ UNCHANGED <<candidates, settled, fsCalls>>
       ELSE StartRead
    /\ UNCHANGED <<host, disk, defaults, commandIds, existing, ci, returned, unlinked>>
    /\ UNCHANGED <<handlerVars, streamVars, hookVars>>

\* fs.readdir(profilesDir) settles; the first fs.stat is awaited
Readdir ==
    /\ kpc = "readdir"
    /\ candidates' = CandidatesOf(disk)
    /\ existing' = <<>>
    /\ kpc' = "stat"
    /\ ci' = 1
    /\ fsCalls' = fsCalls + 1
    /\ UNCHANGED <<host, disk, defaults, commandIds, idx, settled, result, returned, unlinked>>
    /\ UNCHANGED <<handlerVars, streamVars, hookVars>>

\* fs.stat(p) of the existence filter settles
Stat ==
    /\ kpc = "stat"
    /\ LET found == IF IsFile(disk.files[candidates[ci]])
                    THEN Append(existing, candidates[ci]) ELSE existing
       IN /\ existing' = found
          /\ IF ci < Len(candidates)
             THEN /\ ci' = ci + 1
                  /\ fsCalls' = fsCalls + 1
                  /\ UNCHANGED <<kpc, candidates, settled>>
             ELSE IF Len(found) > 1
             THEN /\ kpc' = "statAll"
                  /\ fsCalls' = fsCalls + Len(found)
                  /\ UNCHANGED <<candidates, ci, settled>>
             ELSE StartReadFiles(found)
    /\ UNCHANGED <<host, disk, defaults, commandIds, idx, result, returned, unlinked>>
    /\ UNCHANGED <<handlerVars, streamVars, hookVars>>

\* Promise.all of the second fs.stat calls settles: it rejects when one of them does,
\* and nothing between it and getCurrentKeybindingLabel catches
StatAll ==
    /\ kpc = "statAll"
    /\ IF \E i \in 1..Len(existing) : disk.files[existing[i]].kind = "ENOENT"
       THEN /\ kpc' = "settled"
            /\ settled' = RejectedRead
            /\ UNCHANGED <<candidates, ci, fsCalls>>
       ELSE StartReadFiles(SortByMtime(existing, disk))
    /\ UNCHANGED <<host, disk, defaults, commandIds, idx, existing, result, returned, unlinked>>
    /\ UNCHANGED <<handlerVars, streamVars, hookVars>>

\* readJSON5File(filePath) settles
ReadFile ==
    /\ kpc = "readFile"
    /\ LET rules == ReadJSON5File(disk.files[candidates[ci]])
       IN IF IsArray(rules)
          THEN /\ kpc' = "settled"
               /\ settled' = Resolved(rules.rules)
               /\ UNCHANGED <<ci, fsCalls>>
          ELSE IF ci < Len(candidates)
          THEN /\ ci' = ci + 1
               /\ fsCalls' = fsCalls + 1
               /\ UNCHANGED <<kpc, settled>>
          ELSE /\ kpc' = "settled"
               /\ settled' = Resolved(<<>>)
               /\ UNCHANGED <<ci, fsCalls>>
    /\ UNCHANGED <<host, disk, defaults, commandIds, idx, candidates, existing, result, returned,
                   unlinked>>
    /\ UNCHANGED <<handlerVars, streamVars, hookVars>>

\* getCurrentKeybindingLabel resumes from await readUserKeybindings() and returns;
\* getKeybindingLabels stores the label and runs up to the first await of its next
\* iteration, or returns
Resolve ==
    /\ kpc = "settled"
    /\ LET commandId == commandIds[idx]
           label == IF settled.state = "fulfilled"
                    THEN CurrentLabel(settled.rules, defaults, commandId, host.platform)
                    ELSE Undefined
       IN /\ returned' = Append(returned, [commandId |-> commandId, label |-> label, read |-> settled])
          /\ result' = Assign(result, commandId, label)
    /\ idx' = idx + 1
    /\ IF idx < Len(commandIds)
       THEN StartRead
       ELSE kpc' = "done" /\ UNCHANGED <<candidates, settled, fsCalls>>
    /\ UNCHANGED <<host, disk, defaults, commandIds, existing, ci, unlinked>>
    /\ UNCHANGED <<handlerVars, streamVars, hookVars>>

\* Another process removes candidate p while the call is running
Unlink(p) ==
    /\ kpc \notin {"idle", "done", "absent"}
    /\ disk.files[p].kind = "file"
    /\ disk' = [disk EXCEPT !.files[p] = NoFile]
    /\ unlinked' = unlinked \cup {p}
    /\ UNCHANGED <<host, defaults, commandIds, kpc, idx, candidates, existing, ci, settled, result,
                   returned, fsCalls>>
    /\ UNCHANGED <<handlerVars, streamVars, hookVars>>

-----------------------------------------------------------------------------
(* Initial states of a getKeybindingLabels call *)

\* No ClaudeCodeHandler exists
NoHandler ==
    /\ instance = "none"
    /\ options = DefaultOptions
    /\ useVertex = FALSE
    /\ homedirOk = TRUE
    /\ fs = [q \in Paths |-> Missing]
    /\ cachedConfig = Null
    /\ cachedModelInfo = NoModelInfo
    /\ pc = [t \in Tasks |-> "absent"]
    /\ path = [t \in Tasks |-> 0]
    /\ available = NotAvailable
    /\ configWrites = 0
    /\ readsIssued = 0
    /\ lateReads = 0
    /\ readOk = FALSE
    /\ initOutcome = "pending"
    /\ providerInfo = NotDetected
    /\ upstreamLimit = 0
    /\ seen = <<>>
    /\ cur = NoMessage
    /\ blockIdx = 0
    /\ usage = InitialUsage
    /\ isPaidUsage = TRUE
    /\ output = <<>>
    /\ pulling = FALSE
    /\ resume = "loop"
    /\ thrown = <<>>
    /\ model = NoModelInfo
    /\ launch = NoLaunch

\* The extension host before the call
Called(h, d, contributed, ids) ==
    /\ host = h
    /\ disk = d
    /\ defaults = contributed
    /\ commandIds = ids
    /\ kpc = "idle"
    /\ idx = 0
    /\ candidates = <<>>
    /\ existing = <<>>
    /\ ci = 0
    /\ settled = NotSettled
    /\ result = <<>>
    /\ returned = <<>>
    /\ fsCalls = 0
    /\ unlinked = {}
    /\ NoHandler
    /\ NoHook

Desktop(platform) == [remoteName |-> "", uiKind |-> "Desktop", platform |-> platform]

Hosts ==
    { Desktop("darwin"), Desktop("win32"), Desktop("linux"),
      [remoteName |-> "ssh-remote", uiKind |-> "Desktop", platform |-> "linux"],
      [remoteName |-> "", uiKind |-> "Web", platform |-> "linux"] }

\* contributes.keybindings
PackageKeybindings ==
    <<Rule("cmd+i", PromptCommand), Rule("ctrl+shift+g", GenerateCommand)>>

DefaultRuleSets ==
    { PackageKeybindings,
      <<>>,
      <<Rule("", PromptCommand), Rule("cmd+i", PromptCommand)>> }

UserRuleSets ==
    { <<>>,
      <<Rule("cmd+shift+i", PromptCommand)>>,
      <<Rule("  ", PromptCommand), Rule("ctrl+k ctrl+s", PromptCommand)>>,
      <<Rule("f1", GenerateCommand), Rule(" Alt+Left ", PromptCommand), Rule("shift+x", PromptCommand)>>,
      <<Rule("", PromptCommand)>>,
      <<Rule("meta+pagedown", UnknownCommand)>>,
      <<Rule("ctrl+alt+numpad_add", GenerateCommand), Rule("Shift+F12 option+escape", PromptCommand)>>,
      <<Rule("ctrl+constructor", PromptCommand)>> }

CommandIdLists ==
    { <<>>,
      <<PromptCommand>>,
      <<PromptCommand, GenerateCommand>>,
      <<PromptCommand, UnknownCommand>>,
      <<GenerateCommand, GenerateCommand>> }

Mtimes == {1000, 2000}

\* The rules the keybindings.json of candidate s holds when it holds a list
RulesOfSlot(s) == <<Rule("f" \o Char(Digits, s + 1), PromptCommand)>>

\* What candidate s can be: absent, a list of any age, or the newest file and no list
FileStates(s) ==
    {NoFile}
    \cup {File(m, ListJson(RulesOfSlot(s))) : m \in Mtimes}
    \cup {File(2000, c) : c \in {Unreadable, InvalidJson, ObjectJson}}

\* User directories: a profiles directory or none, entries that are directories or not,
\* a keybindings.json only where its directory exists
Disks ==
    { d \in [profilesDir : BOOLEAN, entries : [1..MaxProfiles -> BOOLEAN],
             files : [Slots -> UNION {FileStates(s) : s \in Slots}]] :
        /\ \A s \in Slots : d.files[s] \in FileStates(s)
        /\ ~d.profilesDir => \A i \in 1..MaxProfiles : ~d.entries[i]
        /\ \A i \in 1..MaxProfiles : ~d.entries[i] => d.files[i + 1] = NoFile }

\* One keybindings.json, no profiles
SingleFile(rules) ==
    [profilesDir |-> FALSE, entries |-> [i \in 1..MaxProfiles |-> FALSE],
     files |-> [s \in Slots |-> IF s = 1 THEN File(2000, ListJson(rules)) ELSE NoFile]]

\* User directories of every shape, one command resolved
InitFiles ==
    \E d \in Disks : Called(Desktop("darwin"), d, PackageKeybindings, <<PromptCommand>>)

\* Rules of every shape in one file, on every host
InitRules ==
    \E h \in Hosts, rules \in UserRuleSets, contributed \in DefaultRuleSets, ids \in CommandIdLists :
        Called(h, SingleFile(rules), contributed, ids)

InitKeybindings == InitFiles \/ InitRules

NextKeybindings ==
    \/ GetKeybindingLabels
    \/ Readdir
    \/ Stat
    \/ StatAll
    \/ ReadFile
    \/ Resolve
    \/ \E p \in Slots : Unlink(p)

SpecKeybindings == InitKeybindings /\ [][NextKeybindings]_vars

-----------------------------------------------------------------------------
(* useKeybindings.  React runs the effect of a committed render before the  *)
(* next render or the unmount; a state update re-renders the component,     *)
(* which is taken in the step of the update.  A commandIds array is not     *)
(* changed once passed: props.ref names the array, props.ids its content.   *)

MaxRenders == 2
MaxEvents == 3

\* A Record<string, string>
NoLabels == <<>>
LabelsA == ("command1" :> "Ctrl+A")
LabelsB == ("command1" :> "Cmd+I") @@ ("command2" :> "Ctrl+B")

IdLists == {<<>>, <<"command1">>, <<"command1", "command2">>}

\* Messages the extension host sends to the webview
HostMessages ==
    { [type |-> "keybindings", keybindings |-> LabelsA],
      [type |-> "keybindings", keybindings |-> LabelsB],
      [type |-> "keybindings"],
      [type |-> "otherMessage", data |-> "some data"] }

\* The argument of vscode.postMessage
GetKeybindingsRequest(ids) == [type |-> "getKeybindings", commandIds |-> ids]

\* An effect with an empty dependency list: it runs on mount only
DepsChanged_MountOnly(prev, next) == prev = 0

\* The dependency list [commandIds] compared by Object.is; prev is 0 before the first run
DepsChanged(prev, next) == prev # next

\* The payload passed on as it is
PayloadOrEmpty_AsIs(message) ==
    IF "keybindings" \in DOMAIN message THEN message.keybindings ELSE Undefined

\* message.keybindings || {}
PayloadOrEmpty(message) ==
    IF "keybindings" \in DOMAIN message THEN message.keybindings ELSE NoLabels

\* The effect of the last committed render has not run yet
EffectPending == phase = "mounted" /\ DepsChanged(effectDeps, props.ref)

\* The effect body without the cleanup of the effect that ran last
RunEffect_NoCleanup(listening, messages) ==
    [listeners |-> listening + 1,
     posted |-> Append(messages, GetKeybindingsRequest(props.ids))]

\* The effect body and, before it, the cleanup of the effect that ran last
RunEffect(listening, messages) ==
    [listeners |-> (IF effectDeps # 0 THEN listening - 1 ELSE listening) + 1,
     posted |-> Append(messages, GetKeybindingsRequest(props.ids))]

\* React flushes the pending effect
Effect ==
    /\ EffectPending
    /\ listeners' = RunEffect(listeners, posted).listeners
    /\ posted' = RunEffect(listeners, posted).posted
    /\ effectDeps' = props.ref
    /\ UNCHANGED <<phase, inline, props, keybindings, rendered, events>>
    /\ UNCHANGED <<handlerVars, streamVars, keybindingVars>>

\* The parent renders the component with a new commandIds array
Rerender(ids) ==
    /\ phase = "mounted"
    /\ ~EffectPending
    /\ props.ref <= MaxRenders
    /\ props' = [ref |-> props.ref + 1, ids |-> ids]
    /\ rendered' = Append(rendered, ids)
    /\ UNCHANGED <<phase, inline, effectDeps, keybindings, listeners, posted, events>>
    /\ UNCHANGED <<handlerVars, streamVars, keybindingVars>>

\* The component is removed: the cleanup of the effect runs
Unmount ==
    /\ phase = "mounted"
    /\ ~EffectPending
    /\ phase' = "unmounted"
    /\ listeners' = listeners - 1
    /\ UNCHANGED <<inline, props, effectDeps, keybindings, posted, rendered, events>>
    /\ UNCHANGED <<handlerVars, streamVars, keybindingVars>>

\* A message event is dispatched on window: handleMessage runs if it is attached, and a
\* setKeybindings call re-renders the component (after the flush of a pending effect),
\* with a new commandIds array when the caller builds one on every render
Message(message) ==
    /\ Len(events) < MaxEvents
    /\ events' = Append(events, [data |-> message, mounted |-> (phase = "mounted" /\ effectDeps # 0)])
    /\ IF listeners > 0 /\ message.type = "keybindings"
       THEN /\ keybindings' = PayloadOrEmpty(message)
            /\ IF EffectPending
               THEN /\ listeners' = RunEffect(listeners, posted).listeners
                    /\ posted' = RunEffect(listeners, posted).posted
                    /\ effectDeps' = props.ref
               ELSE UNCHANGED <<listeners, posted, effectDeps>>
            /\ IF inline
               THEN /\ props' = [props EXCEPT !.ref = @ + 1]
                    /\ rendered' = Append(rendered, props.ids)
               ELSE UNCHANGED <<props, rendered>>
       ELSE UNCHANGED <<keybindings, listeners, posted, effectDeps, props, rendered>>
    /\ UNCHANGED <<phase, inline>>
    /\ UNCHANGED <<handlerVars, streamVars, keybindingVars>>

\* The component after its first render: the effect has not run yet
Rendered(ids, fresh) ==
    /\ phase = "mounted"
    /\ inline = fresh
    /\ props = [ref |-> 1, ids |-> ids]
    /\ effectDeps = 0
    /\ keybindings = NoLabels
    /\ listeners = 0
    /\ posted = <<>>
    /\ rendered = <<ids>>
    /\ events = <<>>
    /\ NoHandler
    /\ NoKeybindingCall

InitHook == \E ids \in IdLists, fresh \in BOOLEAN : Rendered(ids, fresh)

NextHook ==
    \/ Effect
    \/ \E ids \in IdLists : Rerender(ids)
    \/ Unmount
    \/ \E message \in HostMessages : Message(message)

SpecHook == InitHook /\ [][NextHook]_vars

-----------------------------------------------------------------------------
(* Vocabulary of the properties *)

Last(q) == q[Len(q)]

\* The chunks the consumer holds: a yielded usage chunk is the accumulator object
Chunks == [i \in 1..Len(output) |-> IF output[i] = UsageRef THEN usage ELSE output[i]]

UsageChunkCount == Cardinality({i \in 1..Len(output) : output[i] = UsageRef})

Completed == pc["createMessage"] = "done"
Rejected == pc["createMessage"] = "rejected"

\* The generator has just yielded the usage chunk for the result message it received last
UsageJustEmitted ==
    /\ pc["createMessage"] = "yielded"
    /\ output # <<>> /\ Last(output) = UsageRef
    /\ seen # <<>> /\ Last(seen).type = "result"

IsAssistant(m) == m.type = "assistant"
IsInit(m) == m.type = "system"
IsResult(m) == m.type = "result"

SeenSome(P(_)) == \E i \in 1..Len(seen) : P(seen[i])

\* A usage field of one assistant message, an absent cache field counting as 0
TokenField(tokens, f) ==
    IF f \in {"input_tokens", "output_tokens"} THEN tokens[f] ELSE OrZero(tokens[f])

RECURSIVE SumTokens(_, _)
\* Sum of usage field f over the assistant messages of msgs
SumTokens(msgs, f) ==
    IF msgs = <<>> THEN 0
    ELSE (IF IsAssistant(Head(msgs)) THEN TokenField(Head(msgs).message.usage, f) ELSE 0)
         + SumTokens(Tail(msgs), f)

CountersAreSums(u, msgs) ==
    /\ u.inputTokens = SumTokens(msgs, "input_tokens")
    /\ u.outputTokens = SumTokens(msgs, "output_tokens")
    /\ u.cacheReadTokens = SumTokens(msgs, "cache_read_input_tokens")
    /\ u.cacheWriteTokens = SumTokens(msgs, "cache_creation_input_tokens")

RECURSIVE LastInitSource(_)
\* apiKeySource of the most recent system-init message of msgs; "" when there is none
LastInitSource(msgs) ==
    IF msgs = <<>> THEN ""
    ELSE IF IsInit(Last(msgs)) THEN Last(msgs).apiKeySource
    ELSE LastInitSource(SubSeq(msgs, 1, Len(msgs) - 1))

RECURSIVE FirstReadable(_)
\* The settings the candidate files hold: the first readable candidate from p on, else null
FirstReadable(p) ==
    IF p > NumPaths THEN Null
    ELSE IF Readable(fs[p]) THEN Parsed(fs[p])
    ELSE FirstReadable(p + 1)

Settings == FirstReadable(1)

\* The base URL the settings configure; <<>> when there is no env or no ANTHROPIC_BASE_URL
SettingsUrl ==
    IF Settings.kind = "object" /\ Settings.hasEnv THEN Settings.ANTHROPIC_BASE_URL ELSE <<>>

SettingsModel ==
    IF Settings.kind = "object" /\ Settings.hasEnv THEN Settings.ANTHROPIC_MODEL ELSE ""

\* The alternative provider the settings name, by the substring rule
SettingsProvider ==
    IF SettingsUrl = <<>> THEN "none"
    ELSE IF \E i \in 1..Len(SettingsUrl) : SettingsUrl[i] = "z.ai" THEN "zai"
    ELSE IF \E i \in 1..Len(SettingsUrl) : SettingsUrl[i] = "aliyuncs.com" THEN "qwen-code"
    ELSE IF \E i \in 1..Len(SettingsUrl) : SettingsUrl[i] = "deepseek.com" THEN "deepseek"
    ELSE "none"

SameIds(models, ids) ==
    /\ \A i \in 1..Len(models) : models[i].id \in ids
    /\ \A id \in ids : \E i \in 1..Len(models) : models[i].id = id

-----------------------------------------------------------------------------
(* Properties *)

\* C1: when the upstream stream completes without a fatal error, exactly one usage
\* chunk has been emitted and it is the last chunk, whether or not a result message came.
C1_OneUsageChunkLast ==
    Completed => (UsageChunkCount = 1 /\ output # <<>> /\ Last(output) = UsageRef)

\* C2: a stream that ends without a result message still ends with a usage chunk: after a
\* paid init and an assistant message with non-zero usage it carries the accumulated
\* counters and a totalCost above zero; with no assistant message all of it is zero.
C2_CostWithoutResult ==
    (Completed /\ ~SeenSome(IsResult)) =>
        /\ output # <<>> /\ Last(output) = UsageRef
        /\ CountersAreSums(usage, seen)
        /\ "totalCost" \in DOMAIN usage
        /\ (LastInitSource(seen) = "/login managed key" /\ SumTokens(seen, "input_tokens") > 0)
               => usage.totalCost > 0
        /\ ~SeenSome(IsAssistant) => usage.totalCost = 0

\* The error case as the original claim words it: first content block is text and
\* begins with "API Error"
ApiErrorFirst(m) ==
    /\ IsAssistant(m)
    /\ m.message.content # <<>>
    /\ m.message.content[1].type = "text"
    /\ m.message.content[1].text[1] = "API Error"

\* C3 as stated: an assistant message whose first content block is text beginning with
\* "API Error" makes the pull reject.
C3_RejectsWhateverStopReason ==
    (seen # <<>> /\ ApiErrorFirst(Last(seen))) => Rejected

\* C3, amended: an assistant message with a non-null stop_reason whose first content
\* block is text beginning with "API Error" makes the pull reject: receiving it emits no
\* chunk and changes no counter, and once rejected the generator emits nothing more and
\* takes no further upstream message.
C3_ErrorTerminates ==
    [][ /\ (seen' # seen /\ ApiErrorFirst(Last(seen')) /\ Last(seen').message.stop_reason # "null")
            => (Rejected' /\ output' = output /\ usage' = usage /\ thrown' # <<>>)
        /\ Rejected => (Rejected' /\ output' = output /\ seen' = seen /\ usage' = usage) ]_vars

C3_Witness ==
    /\ Rejected
    /\ Len(seen) >= 2 /\ ApiErrorFirst(Last(seen))
    /\ output # <<>>

\* C4: the settings lookup happens at most once per instance: the config cache is
\* written at most once and no file is read after the first successful read.
C4_ConfigReadOnce == configWrites <= 1 /\ lateReads = 0

C7_ModelBeforeDetection ==
    initOutcome = "pending" =>
        /\ (SettingsProvider = "none" /\ HasKey(claudeCodeModels, options.apiModelId))
               => GetModel.id = options.apiModelId
        /\ (SettingsProvider # "none" /\ options.apiModelId = ""
               /\ HasKey(DetectProvider(Settings).models, SettingsModel))
               => GetModel.id = SettingsModel

\* C8: detection returns no provider without env or base URL; otherwise the base URL is
\* tested for "z.ai", "aliyuncs.com", "deepseek.com" in that order, first match wins, no
\* match meaning no provider; the zai table is the Z-family table without glm-4.5-flash.
C8_DetectionRule ==
    providerInfo # NotDetected =>
        /\ providerInfo.provider = SettingsProvider
        /\ SettingsProvider = "none" => providerInfo.models = <<>>
        /\ SettingsProvider = "zai" =>
               /\ SameIds(providerInfo.models, {internationalZAiModels[i].id : i \in 1..Len(internationalZAiModels)}
                                                \ {"glm-4.5-flash"})
               /\ \A i \in 1..Len(providerInfo.models) :
                      \E j \in 1..Len(internationalZAiModels) : providerInfo.models[i] = internationalZAiModels[j]
        /\ SettingsProvider = "qwen-code" => providerInfo.models = qwenCodeModels
        /\ SettingsProvider = "deepseek" => providerInfo.models = deepSeekModels

C8_Witness ==
    /\ providerInfo.provider = "zai"
    /\ SettingsUrl = ZAiDeepSeekUrl
    /\ pc["detect"] = "done"

\* C9: the usage chunk emitted on a result message has totalCost 0 when the stream's
\* (latest) system-init message had apiKeySource "none", and the result's total_cost_usd
\* otherwise, also when no system-init message was seen.
C9_CostByKeySource ==
    UsageJustEmitted =>
        /\ "totalCost" \in DOMAIN Last(Chunks)
        /\ Last(Chunks).totalCost =
               IF LastInitSource(seen) = "none" THEN 0 ELSE Last(seen).total_cost_usd

C9_Witness ==
    /\ UsageJustEmitted
    /\ LastInitSource(seen) = "none"
    /\ Last(seen).total_cost_usd > 0
    /\ Last(Chunks).totalCost = 0

\* C10: the four token counters never decrease during a stream, and the counters of an
\* emitted usage chunk equal the sums of the corresponding usage fields over every
\* assistant message received so far, an absent cache field counting as 0.
C10_CountersAccumulate ==
    /\ [](UsageJustEmitted => CountersAreSums(Last(Chunks), seen))
    /\ [][ /\ usage'.inputTokens >= usage.inputTokens
           /\ usage'.outputTokens >= usage.outputTokens
           /\ usage'.cacheReadTokens >= usage.cacheReadTokens
           /\ usage'.cacheWriteTokens >= usage.cacheWriteTokens ]_vars

C10_Witness ==
    /\ UsageJustEmitted
    /\ Cardinality({i \in 1..Len(seen) : IsAssistant(seen[i])}) = 2
    /\ Last(Chunks).inputTokens = 11
    /\ Last(Chunks).cacheReadTokens = 5

\* The chunks one content block stands for in the consumer's sequence
ChunksOfBlock(block) ==
    CASE block.type = "text" -> <<[type |-> "text", text |-> block.text]>>
      [] block.type = "thinking" -> <<[type |-> "reasoning", text |-> block.thinking]>>
      [] block.type = "redacted_thinking" ->
             <<[type |-> "reasoning", text |-> <<"[Redacted thinking block]">>]>>
      [] OTHER -> <<>>

RECURSIVE ChunksOfBlocks(_)
ChunksOfBlocks(content) ==
    IF content = <<>> THEN <<>>
    ELSE ChunksOfBlock(Head(content)) \o ChunksOfBlocks(Tail(content))

\* An assistant message the adapter answers by throwing
IsApiError(m) == ApiErrorFirst(m) /\ m.message.stop_reason # "null"

RECURSIVE ChunksOfMessages(_)
\* The text and reasoning chunks a sequence of upstream messages stands for
ChunksOfMessages(msgs) ==
    IF msgs = <<>> THEN <<>>
    ELSE (IF Head(msgs).type = "string" THEN <<[type |-> "text", text |-> Head(msgs).text]>>
          ELSE IF IsAssistant(Head(msgs)) /\ ~IsApiError(Head(msgs))
          THEN ChunksOfBlocks(Head(msgs).message.content)
          ELSE <<>>)
         \o ChunksOfMessages(Tail(msgs))

\* The text and reasoning chunks the consumer holds
ContentChunks == SelectSeq(Chunks, LAMBDA c : c.type \in {"text", "reasoning"})

\* The generator is suspended inside the content loop of the message it received last
InsideMessage == pc["createMessage"] = "yielded" /\ resume = "blocks"

\* C11: the text and reasoning chunks emitted are, in upstream order, one text chunk per
\* raw string and, for each assistant message, one chunk per text, thinking and
\* redacted_thinking block in array order; a tool_use block gives no chunk and the blocks
\* and messages after it are still translated.  While the generator is suspended inside a
\* message the chunks are those of the blocks it has passed; otherwise those of all
\* messages received.
C11_ChunksInUpstreamOrder ==
    ContentChunks =
        IF InsideMessage
        THEN ChunksOfMessages(SubSeq(seen, 1, Len(seen) - 1))
                 \o ChunksOfBlocks(SubSeq(Last(seen).message.content, 1, blockIdx - 1))
        ELSE ChunksOfMessages(seen)

\* A completed stream in which a tool_use block was followed by a translated block and by
\* a translated message
C11_Witness ==
    /\ Completed
    /\ Len(seen) = 2
    /\ IsAssistant(seen[1]) /\ Len(seen[1].message.content) = 3
    /\ seen[1].message.content[2].type = "tool_use"
    /\ seen[2].type = "string"
    /\ Len(ContentChunks) = 3
    /\ ContentChunks[2].type = "reasoning"

\* Every candidate settings file fails to read or to parse
NoSettingsReadable == \A p \in Paths : fs[p].kind \in {"ENOENT", "invalid"}

\* The record of the primary default model, maxTokens replaced by the configured value
PrimaryDefaultRecord ==
    LET rec == claudeCodeModels[CHOOSE i \in 1..Len(claudeCodeModels) :
                                    claudeCodeModels[i].id = claudeCodeDefaultModelId].info
    IN IF options.claudeCodeMaxOutputTokens = <<>> THEN rec
       ELSE [rec EXCEPT !.maxTokens = options.claudeCodeMaxOutputTokens]

SettingsTable ==
    CASE SettingsProvider = "zai" ->
             SelectSeq(internationalZAiModels, LAMBDA m : m.id # "glm-4.5-flash")
      [] SettingsProvider = "qwen-code" -> qwenCodeModels
      [] SettingsProvider = "deepseek" -> deepSeekModels
      [] OTHER -> <<>>

\* C18: getAvailableModels never throws and never returns null: it resolves to the
\* alternative provider the settings name, with that provider's non-empty table, and to
\* provider "claude-code" with the primary table in every other case (no settings file
\* readable, no alternative provider, or an error).
C18_AvailableModels ==
    /\ pc["detect"] \in {"absent", "detect", "caught", "done"}
    /\ pc["detect"] = "done" =>
           /\ available.models # <<>>
           /\ available =
                  IF homedirOk /\ SettingsProvider # "none"
                  THEN [provider |-> SettingsProvider, models |-> SettingsTable]
                  ELSE [provider |-> "claude-code", models |-> claudeCodeModels]

\* getAvailableModels has resolved from its catch block
C18_Witness ==
    /\ instance = "temp" /\ ~homedirOk
    /\ pc["detect"] = "done"
    /\ available.provider = "claude-code"
    /\ Len(available.models) = Len(claudeCodeModels)

-----------------------------------------------------------------------------
(* Keybinding labels *)

\* The key has a character that trimming keeps
NonBlank(key) == \E i \in 1..Len(key) : ~IsWhiteSpace(Char(key, i))

Min(S) == CHOOSE n \in S : \A m \in S : n <= m

\* The label the contract gives commandId: that of the first user rule of the command
\* with a key that is not blank, else that of the first default rule of the command,
\* undefined when that leaves no key
ContractLabel(userRules, defaultRules, commandId, platform) ==
    LET overrides == {i \in 1..Len(userRules) :
                         userRules[i].command = commandId /\ NonBlank(userRules[i].key)}
        declared == {i \in 1..Len(defaultRules) : defaultRules[i].command = commandId}
    IN IF overrides # {}
       THEN Defined(prettyPrintKey(Trim(userRules[Min(overrides)].key), platform))
       ELSE IF declared # {} /\ NonBlank(defaultRules[Min(declared)].key)
       THEN Defined(prettyPrintKey(Trim(defaultRules[Min(declared)].key), platform))
       ELSE Undefined

\* The calls of getCurrentKeybindingLabel that have returned
Returns == 1..Len(returned)

\* C12: getCurrentKeybindingLabel returns the label of the first user rule whose
\* command is the requested id and whose key is not empty after trimming, in
\* preference to any default of the command; the first default rule of the command
\* is used only when there is no such user rule.
C12_UserRuleBeforeDefault ==
    \A i \in Returns :
        returned[i].read.state = "fulfilled" =>
            returned[i].label = ContractLabel(returned[i].read.rules, defaults,
                                              returned[i].commandId, host.platform)

\* A user rule with a blank key is passed over for the next rule of the command,
\* a chord, although the command has a default
C12_Witness ==
    \E i \in Returns :
        /\ returned[i].read = Resolved(<<Rule("  ", PromptCommand),
                                         Rule("ctrl+k ctrl+s", PromptCommand)>>)
        /\ returned[i].commandId = PromptCommand
        /\ defaults = PackageKeybindings
        /\ host.platform = "darwin"
        /\ returned[i].label = Defined("Ctrl+K, Ctrl+S")

\* The calls of getCurrentKeybindingLabel whose readUserKeybindings rejected
FailedReads == {i \in Returns : returned[i].read.state = "rejected"}

\* C13: when reading the user rules throws, getCurrentKeybindingLabel resolves as
\* if no override had been found, so a command with a default binding still gets
\* the label of that default.
C13_ReadFailureGivesDefault ==
    \A i \in FailedReads :
        returned[i].label = ContractLabel(<<>>, defaults, returned[i].commandId, host.platform)

\* C14: readUserKeybindings never fails, whatever the file system does during
\* discovery: its promise is never rejected.
C14_ReadNeverFails == settled.state # "rejected"

\* The candidate files that exist on d and parse to a list
ListCandidates(d) ==
    {s \in Slots :
        /\ s = 1 \/ (d.profilesDir /\ d.entries[s - 1])
        /\ d.files[s].kind = "file"
        /\ d.files[s].content.kind = "list"}

\* The rule sets of the list candidates no other list candidate is newer than
MostRecentLists(d) ==
    {d.files[s].content.rules :
        s \in {c \in ListCandidates(d) :
                  \A o \in ListCandidates(d) : d.files[o].mtimeMs <= d.files[c].mtimeMs}}

\* The candidates are in descending order of modification time
Descending(paths, d) ==
    \A i, j \in 1..Len(paths) : i < j => d.files[paths[i]].mtimeMs >= d.files[paths[j]].mtimeMs

\* C15: on a file system that stays as it is, the candidates are read in
\* descending order of modification time, and readUserKeybindings returns the rules
\* of the most recently modified candidate that parses to a list, skipping the
\* candidates that do not read, do not parse or parse to something else; with no
\* such candidate it returns no rules.
C15_MostRecentList ==
    (unlinked = {} /\ CanReadLocalKeybindings(host)) =>
        /\ kpc = "readFile" => Descending(candidates, disk)
        /\ \A i \in Returns :
               /\ returned[i].read.state = "fulfilled"
               /\ IF ListCandidates(disk) = {}
                  THEN returned[i].read.rules = <<>>
                  ELSE returned[i].read.rules \in MostRecentLists(disk)

\* The older top-level list loses to a profile's list, which is read after a newer
\* profile file that does not parse
C15_Witness ==
    /\ unlinked = {}
    /\ disk.files[1] = File(1000, ListJson(RulesOfSlot(1)))
    /\ disk.files[2] = File(2000, InvalidJson)
    /\ disk.files[3] = File(2000, ListJson(RulesOfSlot(3)))
    /\ candidates = <<2, 3, 1>>
    /\ returned # <<>>
    /\ returned[1].read = Resolved(RulesOfSlot(3))

\* The last call of getCurrentKeybindingLabel for commandId that has returned
LastReturn(commandId) ==
    returned[CHOOSE i \in Returns :
                 /\ returned[i].commandId = commandId
                 /\ \A j \in Returns : returned[j].commandId = commandId => j <= i]

\* C16: the mapping getKeybindingLabels returns has exactly the requested command
\* ids as keys; each id maps to what getCurrentKeybindingLabel returned for it, a
\* defined label when a user rule or the default rule of the id has a key that is
\* not empty and undefined when the id is unknown; no ids give the empty mapping.
C16_LabelForEveryRequestedId ==
    kpc = "done" =>
        /\ DOMAIN result = {commandIds[i] : i \in 1..Len(commandIds)}
        /\ commandIds = <<>> => result = <<>>
        /\ \A id \in DOMAIN result :
               /\ result[id] = LastReturn(id).label
               /\ result[id] = ContractLabel(LastReturn(id).read.rules, defaults, id, host.platform)

-----------------------------------------------------------------------------
(* useKeybindings *)

\* C19: useKeybindings posts {type: "getKeybindings", commandIds} with its current
\* command ids when it mounts and again, with the new ids, each time it is rendered
\* with another commandIds argument: the requests posted are those of the arguments
\* in the order of their renders, at most the request of the last render is still to
\* be posted, and none is when the component is unmounted.
C19_RequestPerCommandIds ==
    /\ Len(posted) <= Len(rendered)
    /\ \A i \in 1..Len(posted) : posted[i] = GetKeybindingsRequest(rendered[i])
    /\ Len(rendered) - Len(posted) <= 1
    /\ phase = "unmounted" => Len(posted) = Len(rendered)

\* The request of the mount, then the request of a render with other ids
C19_Witness ==
    /\ ~inline
    /\ rendered = <<<<"command1">>, <<"command1", "command2">>>>
    /\ posted = <<GetKeybindingsRequest(<<"command1">>),
                  GetKeybindingsRequest(<<"command1", "command2">>)>>

\* The "keybindings" messages dispatched while the listener of the hook was attached
Received == {i \in 1..Len(events) : events[i].mounted /\ events[i].data.type = "keybindings"}

\* The payload of the last message received, the empty mapping without one
LatestPayload ==
    IF Received = {} THEN NoLabels
    ELSE LET message == events[CHOOSE i \in Received : \A j \in Received : j <= i].data
         IN IF "keybindings" \in DOMAIN message THEN message.keybindings ELSE NoLabels

\* C20: the mapping useKeybindings returns is empty until a message of type
\* "keybindings" is received and afterwards is the payload of the last such message
\* received while mounted, an absent payload counting as the empty mapping; messages
\* of other types leave it as it is.
C20_LatestPayload == keybindings = LatestPayload

\* Two payloads, then a message of another type: the second payload stays
C20_Witness ==
    /\ Len(events) = 3
    /\ \A i \in 1..3 : events[i].mounted
    /\ events[1].data = [type |-> "keybindings", keybindings |-> LabelsA]
    /\ events[2].data = [type |-> "keybindings", keybindings |-> LabelsB]
    /\ events[3].data.type = "otherMessage"
    /\ keybindings = LabelsB

-----------------------------------------------------------------------------
(* Remote and browser-hosted sessions *)

\* The session has a remote name or its UI is not the desktop one
RemoteOrWeb == host.remoteName # "" \/ host.uiKind # "Desktop"

\* getKeybindingLabels was called
KeybindingCallStarted == kpc \notin {"absent", "idle"}

\* C21: in a remote or browser-hosted session readUserKeybindings returns an empty
\* rule set without enumerating, stat-ing or reading a file, and
\* getUserKeybindingsDirForDiagnostics returns undefined.
C21_RemoteReadsNothing ==
    (RemoteOrWeb /\ KeybindingCallStarted) =>
        /\ fsCalls = 0
        /\ kpc \in {"settled", "done"}
        /\ kpc = "settled" => settled = Resolved(<<>>)
        /\ \A i \in Returns : returned[i].read = Resolved(<<>>)
        /\ getUserKeybindingsDirForDiagnostics(host) = Undefined

\* A browser-hosted session whose disk holds a user rule for the command: the call
\* returns the label of the default
C21_Witness ==
    /\ host.uiKind = "Web"
    /\ disk = SingleFile(<<Rule("cmd+shift+i", PromptCommand)>>)
    /\ defaults = PackageKeybindings
    /\ kpc = "done"
    /\ returned # <<>>
    /\ returned[1].label = Defined("Ctrl+I")
    /\ fsCalls = 0

-----------------------------------------------------------------------------
(* Model info of the handler *)

\* The static model tables a model info can come from
ModelTables == {claudeCodeModels, internationalZAiModels, qwenCodeModels, deepSeekModels}

\* m is a record of a static table save for maxTokens, which is maxTokens
OverriddenRecord(m, maxTokens) ==
    \E table \in ModelTables :
        /\ HasKey(table, m.id)
        /\ m.info = [InfoOf(table, m.id) EXCEPT !.maxTokens = maxTokens]

-----------------------------------------------------------------------------
(* Messages of the errors createMessage raises *)

\* The pull was rejected for the error message received last
RejectedForApiError ==
    /\ Rejected
    /\ seen # <<>>
    /\ ApiErrorFirst(Last(seen))
    /\ Last(seen).message.stop_reason # "null"

\* The text of the error message and the payload extracted from it
ErrorText == Last(seen).message.content[1].text
ErrorPayload == SliceFromIndex(ErrorText, IndexOf(ErrorText, "{"))

\* The payload is a JSON object
PayloadParses == Len(ErrorPayload) >= 2 /\ ErrorPayload[1] = "{" /\ Last(ErrorPayload) = "}"

\* The payload carries an error message containing "Invalid model name"
PayloadInvalidModel ==
    /\ PayloadParses
    /\ ErrorPayload[2] = "error.message:"
    /\ Includes(ErrorPayload, <<"Invalid model name">>)

\* C23: the rejection's message is the original text followed by the plan-mismatch
\* hint when the payload's error message contains "Invalid model name", the
\* extracted JSON payload when the payload parses but is any other error, and the
\* original text when the payload cannot be parsed.
C23_RejectionMessages ==
    RejectedForApiError =>
        thrown = IF PayloadInvalidModel THEN ErrorText \o PlanMismatchHint
                 ELSE IF PayloadParses THEN ErrorPayload
                 ELSE ErrorText

-----------------------------------------------------------------------------
(* Order of the settings lookup *)

\* Some candidate path can be read and parsed
SomeReadable == \E p \in Paths : Readable(fs[p])

\* C24: readClaudeCodeConfig returns the content of the first of the five candidate
\* paths, in their priority order, that can be read and parsed: a call reads a path
\* only after every path before it has failed, so none after a success; what the
\* callers cache and derive is the content of that first path, and null when all
\* five fail.
C24_FirstReadableConfig ==
    /\ \A t \in Tasks : \A q \in Paths : q < path[t] => ~Readable(fs[q])
    /\ cachedConfig \in {Null, Settings}
    /\ providerInfo \in {NotDetected, DetectProvider(Settings)}
    /\ launch # NoLaunch => launch = LaunchArgs(model, Settings)
    /\ ~SomeReadable => (cachedConfig = Null /\ providerInfo \in {NotDetected, NoProvider})

\* The first two paths fail, the third is read and the fourth never is
C24_Witness ==
    /\ instance = "handler"
    /\ fs[1] = Missing /\ fs[2] = BadJson
    /\ fs[3] = Config(TRUE, ZAiUrl, "glm-4.6")
    /\ fs[4] = Config(FALSE, <<>>, "")
    /\ pc["init"] = "done"
    /\ pc["createMessage"] = "unstarted"
    /\ cachedConfig = fs[3]
    /\ providerInfo.provider = "zai"
    /\ readsIssued = 3

-----------------------------------------------------------------------------
(* The format of a label *)

\* The raw key getCurrentKeybindingLabel formats: the trimmed key of the first user
\* rule of the command with a key that is not blank, else of its first default rule
RawKeyOf(userRules, defaultRules, commandId) ==
    LET overrides == {i \in 1..Len(userRules) :
                         userRules[i].command = commandId /\ NonBlank(userRules[i].key)}
        declared == {i \in 1..Len(defaultRules) : defaultRules[i].command = commandId}
    IN IF overrides # {} THEN Trim(userRules[Min(overrides)].key)
       ELSE IF declared # {} THEN Trim(defaultRules[Min(declared)].key)
       ELSE ""

\* The label of one token by the stated precedence: modifier table of the platform,
\* named-key table, function key, single character, first character capitalized
TokenLabel(token, platform) ==
    LET t == ToLowerCase(token)
        modifiers == IF platform = "darwin" THEN macModifiers ELSE winLinuxModifiers
    IN IF t = "cmd" THEN (IF platform = "darwin" THEN "Cmd" ELSE "Ctrl")
       ELSE IF t = "meta" THEN (IF platform = "darwin" THEN "Cmd" ELSE "Win")
       ELSE IF t = "ctrl" THEN "Ctrl"
       ELSE IF HasOwn(modifiers, t) THEN ValueOf(modifiers, t)
       ELSE IF HasOwn(specialKeys, t) THEN ValueOf(specialKeys, t)
       ELSE IF IsFunctionKey(t) \/ Len(t) = 1 THEN ToUpperCase(t)
       ELSE ToUpperCase(SubSeq(t, 1, 1)) \o From(t, 2)

\* One label per chord joined by ", ", the token labels of a chord joined by "+"
KeyLabel(rawKey, platform) ==
    LET chords == SelectSeq(Split(rawKey, " "), LAMBDA c : c # "")
        chordLabel(chord) ==
            Join([i \in 1..Len(Split(chord, "+")) |-> TokenLabel(Split(chord, "+")[i], platform)], "+")
    IN Join([i \in 1..Len(chords) |-> chordLabel(chords[i])], ", ")

\* C25: for every raw key and platform the label has one formatted chord per
\* space-separated chord of the key, joined by ", ", each chord's tokens joined by
\* "+" in their order, each token mapped by the precedence modifier table, named-key
\* table, function key uppercased, single character uppercased, else first
\* character capitalized.
C25_LabelFormat ==
    \A i \in Returns :
        LET rawKey == RawKeyOf(returned[i].read.rules, defaults, returned[i].commandId)
        IN (returned[i].read.state = "fulfilled" /\ rawKey # "") =>
               returned[i].label = Defined(KeyLabel(rawKey, host.platform))

-----------------------------------------------------------------------------
(* The message listener of useKeybindings *)

\* The effect of the hook has run and the component is not removed
Listening == phase = "mounted" /\ effectDeps # 0

\* C26: a useKeybindings instance has exactly one message listener while it is
\* mounted, also after the effect ran again for other commandIds (the listener is
\* replaced, not added to), and none after unmount, so that a "keybindings" message
\* arriving after unmount does not change its state.
C26_OneListenerWhileMounted ==
    /\ [](/\ Listening => listeners = 1
          /\ ~Listening => listeners = 0)
    /\ [][phase = "unmounted" => keybindings' = keybindings]_vars

\* The effect ran for two commandIds arrays, the component was removed, and a
\* "keybindings" message arrived after that
C26_Witness ==
    /\ phase = "unmounted"
    /\ ~inline
    /\ Len(posted) = 2
    /\ listeners = 0
    /\ events # <<>>
    /\ Last(events).data = [type |-> "keybindings", keybindings |-> LabelsA]
    /\ ~Last(events).mounted
    /\ keybindings = NoLabels

-----------------------------------------------------------------------------
(* Laziness of createMessage *)

\* The result messages among msgs
ResultsIn(msgs) == {i \in 1..Len(msgs) : IsResult(msgs[i])}

\* C27: createMessage does nothing before the consumer's first pull (no model taken,
\* no settings read, no CLI launched, no message received), and it takes the next
\* upstream message only on a pull made after the consumer was handed every chunk of
\* the messages before it.
C27_LazyChunks ==
    /\ [](pc["createMessage"] = "unstarted" =>
              /\ model = NoModelInfo
              /\ path["createMessage"] = 0
              /\ launch = NoLaunch
              /\ seen = <<>> /\ output = <<>>)
    /\ [][seen' # seen =>
              /\ pulling
              /\ ContentChunks = ChunksOfMessages(seen)
              /\ UsageChunkCount = Cardinality(ResultsIn(seen))]_vars

\* A message of two translated blocks was received, both chunks were pulled, and the
\* next message was taken
C27_Witness ==
    /\ Len(seen) = 2
    /\ seen[1] = AssistantMsg("null", <<TextBlock(ApiErrorInvalidModel), ToolUseBlock, RedactedBlock>>,
                              Tokens(1, 2, <<>>, <<>>))
    /\ seen[2] = StringMsg
    /\ Len(output) = 3

-----------------------------------------------------------------------------
(* The model-info cache *)

DetectionDone == pc["init"] = "done"

\* C28: the model-info cache of a handler is written once, by the detection its
\* constructor started, and is not derived again: it is empty until that detection
\* finishes and changes in no other step, so the value getModel returns changes at
\* most once, in that step, and getModel calls made after it return the same id and
\* info.
C28_ModelCachedOnce ==
    /\ [](instance # "none" => (cachedModelInfo # NoModelInfo <=> DetectionDone))
    /\ [][ /\ cachedModelInfo' # cachedModelInfo =>
                  (cachedModelInfo = NoModelInfo /\ ~DetectionDone /\ DetectionDone')
           /\ GetModel' # GetModel => (~DetectionDone /\ DetectionDone') ]_vars

\* Detection replaced the fallback by a model of the settings' provider, and the
\* getModel call of a later createMessage returned the cached value
C28_Witness ==
    /\ DetectionDone
    /\ GetModel # DefaultModel(options)
    /\ GetModel.id = "glm-4.6"
    /\ pc["createMessage"] \notin {"unstarted", "absent"}
    /\ model = GetModel

-----------------------------------------------------------------------------
(* The model id passed to the CLI *)

\* createMessage has called runClaudeCode
Launched == launch # NoLaunch

\* C29: when the settings configure a recognized alternative provider, the model id
\* createMessage passes to the CLI is a key of that provider's table and no id of
\* the primary table, whether createMessage runs before or after the detection of
\* the constructor has finished; with no alternative provider the id is a key of
\* the primary table.
C29_CliModelOfProvider ==
    Launched =>
        IF SettingsProvider # "none"
        THEN /\ HasKey(SettingsTable, launch.modelId.id)
             /\ ~HasKey(claudeCodeModels, launch.modelId.id)
        ELSE HasKey(claudeCodeModels, launch.modelId.id)

-----------------------------------------------------------------------------
(* Quiescence of the request/response exchange *)

\* This step dispatches a "keybindings" response
ResponseReceived == events' # events /\ Last(events').data.type = "keybindings"

\* C30: with the caller asking for the same command ids, a "keybindings" response
\* and the re-render it causes never make the hook post another request: a response
\* received when no effect is due posts nothing and leaves no effect due, so the
\* exchange comes to rest.
C30_ResponsePostsNothing ==
    [][(ResponseReceived /\ ~EffectPending) => (posted' = posted /\ ~EffectPending')]_vars

====
